---- MODULE Spec2Model ----
(***************************************************************************)
(* MetaFunction: the multi-source full-text resolution engine              *)
(* (utils/full_text_resolver.py), the response caches (app.py and          *)
(* app/services/ai_service.py) and the chat handlers that use them.        *)
(*                                                                         *)
(* The specifications share the variables:                                 *)
(*   SpecClassify  the classifier is_full_text applied to bounded texts    *)
(*   SpecResolve   one call of resolve_full_text / resolve_full_text_      *)
(*                 enhanced / PaperService.resolve_paper                   *)
(*   SpecCache     chat requests against the two response caches           *)
(*   SpecPdf       one PDF text extraction                                 *)
(*   SpecBrowser   one call of a browser-automation function               *)
(*   SpecThreads   threads calling AIService.get_response                  *)
(*   SpecRetry     one call of a function wrapped by retry_request         *)
(*   SpecLlm       one request through safe_create / _safe_create          *)
(*   SpecJournal   one call of fetch_from_journal_site_enhanced            *)
(***************************************************************************)
EXTENDS Integers, Sequences, FiniteSets, TLC

VARIABLES
    \* --- classifier ---
    cl_text,        \* the argument of is_full_text
    cl_result,      \* its return value
    cl_pc,          \* "call" | "done"
    \* --- one resolution call ---
    fn,             \* "rft" = resolve_full_text, "rfte" = resolve_full_text_enhanced
    pc,             \* position inside the call
    pmid, doi, title,   \* parameters / locals of the call
    pmcid,          \* local pmcid
    src_i,          \* index of the loop over sources in resolve_full_text_enhanced
    pmc_text,       \* local pmc_text (value returned by fetch_pmc_fulltext)
    results,        \* local list of (text, source, is_ft)
    access_logs,    \* local access_logs of resolve_full_text
    metadata,       \* local metadata dict of resolve_full_text_enhanced
    ret,            \* how the call ended: returned value or raised exception
    calls,          \* the functions invoked so far, with their arguments
    args,           \* the function called and the arguments it was given
    found,          \* what search_paper_by_title returned, if it was called
    paper_result,   \* the PaperResult filled by PaperService._resolve_paper_content
    \* --- response cache and chat handler ---
    app_kind,       \* "app.py" (monolith) | "web" (app/routes/web.py with AIService)
    cache_bound,    \* AIService.cache_size, resp. max_size of app.py add_to_cache
    query_cache,    \* the OrderedDict query_cache, oldest entry first
    use,            \* the keys of query_cache, least recently used first
    seen,           \* the queries submitted so far with caching enabled
    ev,             \* what the last request did
    \* --- PDF text extraction (resolvers/pdf_extractor.py) ---
    pdf_pc,         \* position inside the extraction
    pdf_caller,     \* who called extract_text_from_pdf_bytes
    pdf_globals,    \* the names the imports at the top of the module bound
    pdf_size,       \* len(pdf_bytes)
    extraction_methods, \* local list extraction_methods
    pdf_i,          \* index of the loop over extraction_methods
    pdf_text,       \* local text of extract_text_from_pdf_bytes
    pdf_trace,      \* the library methods run so far, with their outcomes
    pdf_ocr,        \* "not tried" | "unavailable" | "failed" | "ok"
    pdf_ret,        \* return value of extract_text_from_pdf_bytes
    ext_trace,      \* the command-line tools run so far
    pdf_final,      \* what the caller ends up with
    pdf_response,   \* the response requests.get gave extract_text_from_pdf_url
    \* --- browser automation ---
    br_fn,          \* the function called
    br_pc,          \* position inside the call
    br_in,          \* what the call finds: installed packages, configuration
    br_i,           \* index of the loop over university_list
    drivers,        \* the drivers started so far: "open" | "quit"
    br_steps,       \* the steps the call has taken
    br_ret,         \* "pending" | "text" | "None"
    \* --- threads calling AIService.get_response on the shared instance ---
    threads,        \* per thread: position, cache key and flags of its call
    started,        \* number of calls started so far
    \* --- retry_request: one call of a wrapped function ---
    rt_module,      \* the module whose retry_request wraps the function
    rt_pc,          \* position inside wrapper
    rt_attempt,     \* loop variable attempt
    rt_trace,       \* how each invocation of func ended
    rt_sleeps,      \* the delays passed to time.sleep, in quarter seconds
    rt_ret,         \* how the wrapper call ended
    \* --- safe_create / OpenAIClient._safe_create: one request ---
    sc_fn,          \* "safe_create" (app.py) | "_safe_create" (OpenAIClient)
    sc_pc,          \* position inside the function
    sc_attempt,     \* loop variable attempt
    sc_trace,       \* how each call of the provider ended
    sc_msg,         \* str(e) of the last RateLimitError
    sc_wait,        \* the last time.sleep: what the error asked for, what was slept
    sc_ret,         \* how the request ended
    \* --- fetch_from_journal_site_enhanced: one call ---
    js_pc,          \* position inside the call
    js_doi,         \* parameter doi
    js_page,        \* the article page the publisher serves
    js_trace,       \* the requests made and selectors tried so far
    js_ret          \* return value

clVars    == <<cl_text, cl_result, cl_pc>>
resVars   == <<fn, pc, pmid, doi, title, pmcid, src_i, pmc_text, results,
               access_logs, metadata, ret, calls, args, found, paper_result>>
cacheVars == <<app_kind, cache_bound, query_cache, use, seen, ev>>
pdfVars   == <<pdf_pc, pdf_caller, pdf_globals, pdf_size, extraction_methods,
               pdf_i, pdf_text, pdf_trace, pdf_ocr, pdf_ret, ext_trace, pdf_final,
               pdf_response>>
brVars    == <<br_fn, br_pc, br_in, br_i, drivers, br_steps, br_ret>>
ccVars    == <<threads, started>>
retryVars == <<rt_module, rt_pc, rt_attempt, rt_trace, rt_sleeps, rt_ret>>
llmVars   == <<sc_fn, sc_pc, sc_attempt, sc_trace, sc_msg, sc_wait, sc_ret>>
jsVars    == <<js_pc, js_doi, js_page, js_trace, js_ret>>
netVars   == <<retryVars, llmVars, jsVars>>
vars      == <<clVars, resVars, cacheVars, pdfVars, brVars, ccVars, netVars>>

(***************************************************************************)
(* Python values.  A str is a record with kind "str"; None has kind        *)
(* "none"; an object that is not a str (an int passed as identifier) has   *)
(* kind "obj".                                                             *)
(***************************************************************************)
None    == [k |-> "none", s |-> <<>>]
Str(cs) == [k |-> "str", s |-> cs]
NonStr  == [k |-> "obj", s |-> <<>>]

\* Python truthiness of None, str and a non-zero int
Truthy(v) == \/ v.k = "obj"
             \/ v.k = "str" /\ v.s # <<>>

\* a or b
Or(a, b) == IF Truthy(a) THEN a ELSE b

(***************************************************************************)
(* Texts.  A text is a str whose characters are the words of body joined   *)
(* by single blanks, followed by pad filler characters "x".  No section    *)
(* marker contains an "x" and every word of Vocabulary contains a marker   *)
(* word only if it equals it up to case, so the substring test             *)
(* `marker in text_lower` is the test that the marker's words occur        *)
(* consecutively in the lower-cased body.                                  *)
(***************************************************************************)
NoText == [k |-> "none", body |-> <<>>, pad |-> 0]
Text(body, pad) == [k |-> "str", body |-> body, pad |-> pad]

RECURSIVE WordsLen(_)
WordsLen(ws) == IF ws = <<>> THEN 0 ELSE Len(Head(ws)) + WordsLen(Tail(ws))

\* len(text)
TextLen(t) ==
    IF t.body = <<>> THEN t.pad
    ELSE WordsLen(t.body) + (Len(t.body) - 1) + t.pad

\* bool(text)
TextTruthy(t) == t.k = "str" /\ TextLen(t) > 0

\* str.lower() of one word
Lower(w) ==
    CASE w = "Introduction" -> "introduction"
      [] w = "Methods"      -> "methods"
      [] w = "RESULTS"      -> "results"
      [] w = "Table"        -> "table"
      [] OTHER              -> w

\* text.lower(): the filler "x" is lower case already
LowerBody(ws) == [i \in 1..Len(ws) |-> Lower(ws[i])]

\* marker in text_lower
Contains(ws, m) ==
    \E i \in 1..Len(ws) :
        /\ i + Len(m) - 1 <= Len(ws)
        /\ \A j \in 1..Len(m) : ws[i + j - 1] = m[j]

\* full_text_resolver.py:565-575
full_text_markers ==
    << <<"introduction">>, <<"methods">>, <<"results">>, <<"discussion">>,
       <<"conclusion">>, <<"references">>, <<"materials", "and", "methods">>,
       <<"figure", "1">>, <<"table", "1">> >>

\* len(text) > 4000
FullTextMinLen == 4000
\* section_matches >= 3
MinSectionMatches == 3

\* sum(1 for marker in full_text_markers if marker in text_lower)
RECURSIVE section_matches(_, _)
section_matches(text_lower, i) ==
    IF i > Len(full_text_markers) THEN 0
    ELSE (IF Contains(text_lower, full_text_markers[i]) THEN 1 ELSE 0)
         + section_matches(text_lower, i + 1)

\* faulty variant of is_full_text: the length test admits exactly 4000 characters
is_full_text_ge(text) ==
    IF ~TextTruthy(text) THEN FALSE
    ELSE IF TextLen(text) >= FullTextMinLen THEN TRUE
    ELSE section_matches(LowerBody(text.body), 1) >= MinSectionMatches

is_full_text(text) ==
    IF ~TextTruthy(text) THEN FALSE
    ELSE IF TextLen(text) > FullTextMinLen THEN TRUE
    ELSE section_matches(LowerBody(text.body), 1) >= MinSectionMatches

(***************************************************************************)
(* Identifiers and their validation (full_text_resolver.py:47-58).         *)
(* A str identifier is the sequence of its characters.                     *)
(***************************************************************************)
Digits == {"0", "1", "2", "3", "4", "5", "6", "7", "8", "9"}
Letters == {"a", "b", "c", "d", "e", "f", "g", "h", "i", "j", "k", "l", "m",
            "n", "o", "p", "q", "r", "s", "t", "u", "v", "w", "x", "y", "z",
            "A", "B", "C", "D", "E", "F", "G", "H", "I", "J", "K", "L", "M",
            "N", "O", "P", "Q", "R", "S", "T", "U", "V", "W", "X", "Y", "Z"}
\* [-._;()/:A-Z0-9] under re.I
DoiSuffixChars == Digits \cup Letters \cup {"-", ".", "_", ";", "(", ")", "/", ":"}

AllIn(cs, from, to, S) == \A i \in from..to : cs[i] \in S

\* `$` also matches just before a final newline
StripFinalNewline(cs) ==
    IF Len(cs) > 0 /\ cs[Len(cs)] = "\n" THEN SubSeq(cs, 1, Len(cs) - 1) ELSE cs

\* re.match(r"^\d{7,9}$", pmid) is not None
MatchPmid(cs) == Len(cs) \in 7..9 /\ AllIn(cs, 1, Len(cs), Digits)
validate_pmid(cs) == MatchPmid(cs) \/ MatchPmid(StripFinalNewline(cs))

\* re.match(r"^10\.\d{4,9}/[-._;()/:A-Z0-9]+$", doi, re.I) is not None
MatchDoi(cs) ==
    /\ Len(cs) >= 3
    /\ cs[1] = "1" /\ cs[2] = "0" /\ cs[3] = "."
    /\ \E n \in 4..9 :
        /\ Len(cs) >= 3 + n + 2
        /\ AllIn(cs, 4, 3 + n, Digits)
        /\ cs[4 + n] = "/"
        /\ AllIn(cs, 5 + n, Len(cs), DoiSuffixChars)
validate_doi(cs) == MatchDoi(cs) \/ MatchDoi(StripFinalNewline(cs))

\* s.startswith(prefix)
StartsWith(cs, prefix) ==
    Len(cs) >= Len(prefix) /\ SubSeq(cs, 1, Len(prefix)) = prefix

\* --- the identifiers a call is given ---
ValidPmid   == Str(<<"1", "2", "3", "4", "5", "6", "7">>)
InvalidPmid == Str(<<"1", "2", "3">>)
ElsevierDoi == Str(<<"1", "0", ".", "1", "0", "1", "6", "/", "j", "1">>)
BiorxivDoi  == Str(<<"1", "0", ".", "1", "1", "0", "1", "/", "2">>)
InvalidDoi  == Str(<<"d", "o", "i", ":", "x">>)
SomeTitle   == Str(<<"t">>)
SomePmcid   == Str(<<"7", "7">>)

Pmids  == {None, ValidPmid, InvalidPmid, NonStr}
Dois   == {None, ElsevierDoi, BiorxivDoi, InvalidDoi, NonStr}
Titles == {None, SomeTitle, NonStr}

\* what search_paper_by_title can return: (doi, pmid) from PubMed with doi
\* possibly None, (doi, None) from CrossRef, or (None, None)
FoundIds == {<<d, p>> : d \in {None, ElsevierDoi, BiorxivDoi}, p \in {None, ValidPmid}}
\* the title search has not been called
NotSearched == <<>>

\* faulty variant of MergeFound: the identifier the search found is dropped
MergeFound_keep(found_id, id) == id

\* doi = found_doi or doi; pmid = found_pmid or pmid
MergeFound(found_id, id) == Or(found_id, id)

(***************************************************************************)
(* What a source adapter hands back: None, "", an abstract, a full text,   *)
(* or an exception that escapes it.                                        *)
(***************************************************************************)
EmptyText   == Text(<<>>, 0)
AbsShort    == Text(<<"data">>, 100)
AbsLong     == Text(<<"data">>, FullTextMinLen - 4)
FullMarkers == Text(<<"Introduction", "Methods", "RESULTS">>, 0)
FullLong    == Text(<<"data">>, FullTextMinLen - 3)
Raised      == [k |-> "raise", body |-> <<>>, pad |-> 0]

AdapterTexts    == {NoText, EmptyText, AbsShort, AbsLong, FullMarkers, FullLong}
AdapterOutcomes == AdapterTexts \cup {Raised}

\* dicts
EmptyDict == [x \in {} |-> 0]
Put(d, key, v) == (key :> v) @@ d
Has(d, key) == key \in DOMAIN d
\* dict.get(key, default)
Get(d, key, default) == IF key \in DOMAIN d THEN d[key] ELSE default

Call(f, a, b) == [f |-> f, a |-> a, b |-> b]
Result(text, source, is_ft) == [text |-> text, source |-> source, is_ft |-> is_ft]
LogEntry(source, success, m, n) ==
    [source |-> source, success |-> success, message |-> [m |-> m, n |-> n]]

NoRet == [kind |-> "none", text |-> NoText, meta |-> EmptyDict, exc |-> ""]
Returned(text, meta) == [kind |-> "return", text |-> text, meta |-> meta, exc |-> ""]
Raises(exc) == [kind |-> "raise", text |-> NoText, meta |-> EmptyDict, exc |-> exc]

\* max(seq, key=lambda x: len(x[0])): the first element of maximal length
RECURSIVE MaxByLen(_, _)
MaxByLen(seq, best) ==
    IF seq = <<>> THEN best
    ELSE MaxByLen(Tail(seq),
                  IF TextLen(Head(seq).text) > TextLen(best.text) THEN Head(seq) ELSE best)
max_len(seq) == MaxByLen(Tail(seq), Head(seq))

\* full_texts / abstracts of "Process results"
full_texts(rs) == SelectSeq(rs, LAMBDA r : r.is_ft)
abstracts(rs)  == SelectSeq(rs, LAMBDA r : ~r.is_ft)

(***************************************************************************)
(* resolve_full_text_enhanced (full_text_resolver.py:1331-1455)            *)
(***************************************************************************)
\* faulty variant of RFTE_OuterExcept: the outer handler is missing
RFTE_OuterExcept_missing(exc, p, d) == Raises(exc)

\* except Exception as e: return None, {"error": str(e), "pmid": pmid, "doi": doi}
RFTE_OuterExcept(exc, p, d) ==
    Returned(NoText, ("error" :> exc) @@ ("pmid" :> p) @@ ("doi" :> d))

\* the metadata dict as initialized at the start of the call
RFTE_InitMetadata(p, d, t) ==
    ("doi" :> d) @@ ("pmid" :> p) @@ ("title" :> t)
    @@ ("has_full_text" :> FALSE) @@ ("source" :> "None")

\* faulty variant of PmcReturnsImmediately: the cascade goes on after a PMC full text
PmcReturnsImmediately_never(is_fulltext) == FALSE

\* `if is_fulltext: ... return` after fetch_pmc_fulltext
PmcReturnsImmediately(is_fulltext) == is_fulltext

\* faulty variant of BestResult: the longest text wins whatever its class
BestResult_longest(rs) ==
    IF rs = <<>> THEN [state |-> "NO_CONTENT", r |-> Result(NoText, "None", FALSE)]
    ELSE [state |-> IF max_len(rs).is_ft THEN "FULL_TEXT_FOUND" ELSE "ABSTRACT_ONLY",
          r |-> max_len(rs)]

\* "Return the best result": the longest full text, else the longest abstract
BestResult(rs) ==
    IF full_texts(rs) # <<>>
        THEN [state |-> "FULL_TEXT_FOUND", r |-> max_len(full_texts(rs))]
    ELSE IF abstracts(rs) # <<>>
        THEN [state |-> "ABSTRACT_ONLY", r |-> max_len(abstracts(rs))]
    ELSE [state |-> "NO_CONTENT", r |-> Result(NoText, "None", FALSE)]

\* Validate identifiers: an invalid str is dropped, a non-str makes re.match raise
RFTE_Validate ==
    /\ fn = "rfte" /\ pc = "validate"
    /\ LET m0 == RFTE_InitMetadata(pmid, doi, title)
           doiRaises == doi.k = "obj"
           doi1 == IF Truthy(doi) /\ ~doiRaises /\ ~validate_doi(doi.s) THEN None ELSE doi
           pmidRaises == pmid.k = "obj"
           pmid1 == IF Truthy(pmid) /\ ~pmidRaises /\ ~validate_pmid(pmid.s) THEN None ELSE pmid
       IN /\ metadata' = m0
          /\ IF doiRaises
                THEN /\ ret' = RFTE_OuterExcept("TypeError", pmid, doi)
                     /\ pc' = "done"
                     /\ UNCHANGED <<doi, pmid>>
             ELSE IF pmidRaises
                THEN /\ ret' = RFTE_OuterExcept("TypeError", pmid, doi1)
                     /\ pc' = "done"
                     /\ doi' = doi1
                     /\ UNCHANGED pmid
             ELSE /\ doi' = doi1
                  /\ pmid' = pmid1
                  /\ pc' = "title"
                  /\ UNCHANGED ret
    /\ UNCHANGED <<fn, title, pmcid, src_i, pmc_text, results, access_logs, calls>>
    /\ UNCHANGED <<clVars, cacheVars, pdfVars, brVars, ccVars, netVars, args, found, paper_result>>

\* If we only have title, try to get identifiers
RFTE_TitleSearch ==
    /\ fn = "rfte" /\ pc = "title"
    /\ IF Truthy(title) /\ ~(Truthy(doi) \/ Truthy(pmid))
          THEN /\ calls' = Append(calls, Call("search_paper_by_title", title, None))
               /\ \/ \* re.sub on a non-str title, or an exception escaping the search
                     /\ ret' = RFTE_OuterExcept(IF title.k = "obj" THEN "TypeError" ELSE "Exception",
                                                pmid, doi)
                     /\ pc' = "done"
                     /\ UNCHANGED <<doi, pmid, metadata, found>>
                  \/ /\ title.k = "str"
                     /\ \E f \in FoundIds :
                          /\ found' = f
                          /\ doi' = MergeFound(f[1], doi)
                          /\ pmid' = MergeFound(f[2], pmid)
                          /\ metadata' = Put(Put(metadata, "doi", MergeFound(f[1], doi)),
                                             "pmid", MergeFound(f[2], pmid))
                     /\ pc' = "pmcid"
                     /\ UNCHANGED ret
          ELSE /\ pc' = "pmcid"
               /\ UNCHANGED <<doi, pmid, metadata, ret, calls, found>>
    /\ UNCHANGED <<fn, title, pmcid, src_i, pmc_text, results, access_logs>>
    /\ UNCHANGED <<clVars, cacheVars, pdfVars, brVars, ccVars, netVars, args, paper_result>>

\* Get PMCID if available; an exception of the lookup is logged, pmcid stays None
RFTE_GetPmcid ==
    /\ fn = "rfte" /\ pc = "pmcid"
    /\ IF Truthy(pmid) \/ Truthy(doi)
          THEN /\ calls' = Append(calls, Call("get_pmcid_from_pmid_or_doi", pmid, doi))
               /\ \E outcome \in {"none", "found", "raise"} :
                    /\ pmcid' = IF outcome = "found" THEN SomePmcid ELSE None
                    /\ metadata' = IF outcome = "found"
                                      THEN Put(metadata, "pmcid", SomePmcid) ELSE metadata
          ELSE UNCHANGED <<calls, pmcid, metadata>>
    /\ pc' = "pmc"
    /\ UNCHANGED <<fn, pmid, doi, title, src_i, pmc_text, results, access_logs, ret>>
    /\ UNCHANGED <<clVars, cacheVars, pdfVars, brVars, ccVars, netVars, args, found, paper_result>>

\* Try PubMed Central first; return immediately if it is full text
RFTE_PMC ==
    /\ fn = "rfte" /\ pc = "pmc"
    /\ IF Truthy(pmcid)
          THEN /\ calls' = Append(calls, Call("fetch_pmc_fulltext", pmcid, None))
               /\ \E o \in AdapterOutcomes :
                    IF o = Raised \/ ~TextTruthy(o)
                       THEN /\ pc' = "sources"
                            /\ pmc_text' = IF o = Raised THEN pmc_text ELSE o
                            /\ UNCHANGED <<results, metadata, ret>>
                       ELSE LET is_fulltext == is_full_text(o) IN
                            /\ pmc_text' = o
                            /\ results' = Append(results, Result(o, "PubMed Central", is_fulltext))
                            /\ IF PmcReturnsImmediately(is_fulltext)
                                  THEN LET m == Put(Put(Put(metadata, "has_full_text", TRUE),
                                                        "source", "PubMed Central"),
                                                    "text_length", TextLen(o))
                                       IN /\ metadata' = m
                                          /\ ret' = Returned(o, m)
                                          /\ pc' = "done"
                                  ELSE /\ pc' = "sources"
                                       /\ UNCHANGED <<metadata, ret>>
          ELSE /\ pc' = "sources"
               /\ UNCHANGED <<calls, pmc_text, results, metadata, ret>>
    /\ UNCHANGED <<fn, pmid, doi, title, pmcid, src_i, access_logs>>
    /\ UNCHANGED <<clVars, cacheVars, pdfVars, brVars, ccVars, netVars, args, found, paper_result>>

\* faulty variant of sources: the journal site is tried before PubMed
sources_journal_first ==
    << [f |-> "fetch_fulltext_europe_pmc", name |-> "Europe PMC"],
       [f |-> "fetch_from_journal_site",   name |-> "Journal Website"],
       [f |-> "fetch_pubmed_abstract",     name |-> "PubMed Abstract"],
       [f |-> "fetch_biorxiv_html",        name |-> "BioRxiv"] >>

\* the list `sources` of resolve_full_text_enhanced
sources ==
    << [f |-> "fetch_fulltext_europe_pmc", name |-> "Europe PMC"],
       [f |-> "fetch_pubmed_abstract",     name |-> "PubMed Abstract"],
       [f |-> "fetch_from_journal_site",   name |-> "Journal Website"],
       [f |-> "fetch_biorxiv_html",        name |-> "BioRxiv"] >>

\* DOI prefixes of publisher_patterns in fetch_from_journal_site
publisher_patterns ==
    { <<"1", "0", ".", "1", "1", "5", "8">>, <<"1", "0", ".", "1", "0", "1", "6">>,
      <<"1", "0", ".", "1", "0", "3", "8">>, <<"1", "0", ".", "1", "0", "0", "2">> }
BiorxivPrefix == <<"1", "0", ".", "1", "1", "0", "1", "/">>

\* Whether an adapter, given the str arg, gets past its own argument check and
\* goes to the network; otherwise it returns None at once.
PassesOwnCheck(f, arg) ==
    CASE f = "fetch_fulltext_europe_pmc" -> validate_pmid(arg.s)
      [] f = "fetch_pubmed_abstract"     -> validate_pmid(arg.s)
      [] f = "fetch_from_journal_site"   -> \E pre \in publisher_patterns : StartsWith(arg.s, pre)
      [] f = "fetch_biorxiv_html"        -> StartsWith(arg.s, BiorxivPrefix)

\* The argument a source of the loop is called with; None stands for `continue`
SourceArg(source_name, p, d) ==
    IF source_name = "PubMed Abstract" /\ Truthy(p) THEN p
    ELSE IF source_name = "BioRxiv" /\ Truthy(d) THEN d
    ELSE IF Truthy(d) THEN d
    ELSE None

\* one iteration of `for fetch_func, source_name in sources`
RFTE_Source ==
    /\ fn = "rfte" /\ pc = "sources" /\ src_i <= Len(sources)
    /\ LET src == sources[src_i]
           arg == SourceArg(src.name, pmid, doi)
       IN IF arg = None
             THEN UNCHANGED <<calls, results>>
             ELSE /\ calls' = Append(calls, Call(src.f, arg, None))
                  /\ \E o \in AdapterOutcomes :
                       /\ PassesOwnCheck(src.f, arg) \/ o = NoText
                       /\ results' = IF o # Raised /\ TextTruthy(o)
                                        THEN Append(results, Result(o, src.name, is_full_text(o)))
                                        ELSE results
    /\ src_i' = src_i + 1
    /\ UNCHANGED <<fn, pc, pmid, doi, title, pmcid, pmc_text, access_logs, metadata, ret>>
    /\ UNCHANGED <<clVars, cacheVars, pdfVars, brVars, ccVars, netVars, args, found, paper_result>>

\* faulty variant of RFTE_ResultMetadata: the abstract branch leaves out
\* has_abstract and names the first collected adapter as the source
RFTE_ResultMetadata_first_source(m, rs, best) ==
    CASE best.state = "FULL_TEXT_FOUND" ->
           Put(Put(Put(m, "has_full_text", TRUE),
                   "source", best.r.source), "text_length", TextLen(best.r.text))
      [] best.state = "ABSTRACT_ONLY" ->
           Put(Put(Put(m, "has_full_text", FALSE),
                   "source", rs[1].source), "text_length", TextLen(best.r.text))
      [] OTHER -> m

\* the metadata updates of the three final branches of
\* resolve_full_text_enhanced
RFTE_ResultMetadata(m, rs, best) ==
    CASE best.state = "FULL_TEXT_FOUND" ->
           Put(Put(Put(m, "has_full_text", TRUE),
                   "source", best.r.source), "text_length", TextLen(best.r.text))
      [] best.state = "ABSTRACT_ONLY" ->
           Put(Put(Put(Put(m, "has_full_text", FALSE),
                       "has_abstract", TRUE),
                   "source", best.r.source), "text_length", TextLen(best.r.text))
      [] OTHER -> m

\* Process results; return the best result
RFTE_Aggregate ==
    /\ fn = "rfte" /\ pc = "sources" /\ src_i > Len(sources)
    /\ LET best == BestResult(results)
           m == RFTE_ResultMetadata(metadata, results, best)
       IN /\ metadata' = m
          /\ ret' = Returned(best.r.text, m)
    /\ pc' = "done"
    /\ UNCHANGED <<fn, pmid, doi, title, pmcid, src_i, pmc_text, results, access_logs, calls>>
    /\ UNCHANGED <<clVars, cacheVars, pdfVars, brVars, ccVars, netVars, args, found, paper_result>>

(***************************************************************************)
(* resolve_full_text (full_text_resolver.py:895-1093)                      *)
(***************************************************************************)
\* the dict resolve_full_text returns (its "text" is ret.text)
RFT_Dict(source, is_ft, logs) ==
    ("source" :> source) @@ ("is_full_text" :> is_ft) @@ ("access_logs" :> logs)

\* Try PubMed Central first (lines 905-934)
RFT_PMC ==
    /\ fn = "rft" /\ pc = "pmc"
    /\ \E outcome \in {"none", "found", "raise"} :
         \* without pmid and doi the lookup returns None without a request
         /\ outcome = "none" \/ Truthy(pmid) \/ Truthy(doi)
         /\ pmcid' = IF outcome = "found" THEN SomePmcid ELSE None
         /\ CASE outcome = "raise" ->
                   /\ access_logs' = Append(access_logs, LogEntry("PubMed Central", FALSE, "Error", 0))
                   /\ pc' = "europe"
                   /\ UNCHANGED <<pmc_text, results, ret>>
              [] outcome = "none" ->
                   /\ pc' = "europe"
                   /\ UNCHANGED <<pmc_text, results, access_logs, ret>>
              [] outcome = "found" ->
                   \E o \in AdapterOutcomes :
                      IF o = Raised
                         THEN /\ access_logs' = Append(access_logs,
                                     LogEntry("PubMed Central", FALSE, "Error", 0))
                              /\ pc' = "europe"
                              /\ UNCHANGED <<pmc_text, results, ret>>
                      ELSE IF ~TextTruthy(o)
                         THEN /\ pmc_text' = o
                              /\ access_logs' = Append(access_logs,
                                     LogEntry("PubMed Central", FALSE, "No content returned", 0))
                              /\ pc' = "europe"
                              /\ UNCHANGED <<results, ret>>
                      ELSE IF PmcReturnsImmediately(is_full_text(o))
                         THEN /\ pmc_text' = o
                              /\ ret' = Returned(o, RFT_Dict("PubMed Central", TRUE,
                                     << LogEntry("PubMed Central", TRUE, "Retrieved", TextLen(o)) >>))
                              /\ pc' = "done"
                              /\ UNCHANGED <<results, access_logs>>
                      ELSE /\ pmc_text' = o
                           /\ results' = Append(results, Result(o, "PubMed Central", FALSE))
                           /\ access_logs' = Append(access_logs,
                                  LogEntry("PubMed Central", TRUE, "Retrieved", TextLen(o)))
                           /\ pc' = "europe"
                           /\ UNCHANGED ret
    /\ calls' = Append(calls, Call("get_pmcid_from_pmid_or_doi", pmid, doi))
              \o (IF pmcid' # None THEN <<Call("fetch_pmc_fulltext", pmcid', None)>> ELSE <<>>)
    /\ UNCHANGED <<fn, pmid, doi, title, src_i, metadata>>
    /\ UNCHANGED <<clVars, cacheVars, pdfVars, brVars, ccVars, netVars, args, found, paper_result>>

\* "Try Europe PMC first" (lines 936-943): fetch_from_source is defined nowhere
\* in the module, so the call raises NameError, outside any try block
RFT_FetchFromSource ==
    /\ fn = "rft" /\ pc = "europe"
    /\ IF Truthy(pmid) \/ Truthy(doi)
          THEN /\ ret' = Raises("NameError")
               /\ pc' = "done"
          ELSE /\ pc' = "rest"
               /\ UNCHANGED ret
    /\ UNCHANGED <<fn, pmid, doi, title, pmcid, src_i, pmc_text, results, access_logs,
                   metadata, calls>>
    /\ UNCHANGED <<clVars, cacheVars, pdfVars, brVars, ccVars, netVars, args, found, paper_result>>

\* Lines 945-1093 of a call without pmid and doi: every `if pmid` / `if doi`
\* block is skipped, utils.institutional_access is imported (the package has no
\* such module unless one is installed), pdf_url is None, and the best of
\* results is returned.
RFT_Rest ==
    /\ fn = "rft" /\ pc = "rest"
    /\ ~(Truthy(pmid) \/ Truthy(doi))
    /\ \E import \in {"ImportError", "ok", "init raises"} :
         LET logs == CASE import = "ImportError" ->
                            Append(access_logs, LogEntry("Institutional Access", FALSE,
                                                         "Module not available", 0))
                       [] import = "init raises" ->
                            Append(access_logs, LogEntry("Institutional Access", FALSE,
                                                         "Error", 0))
                       [] OTHER -> access_logs
             best == BestResult(results)
         IN /\ access_logs' = logs
            /\ ret' = Returned(best.r.text,
                               RFT_Dict(best.r.source, best.state = "FULL_TEXT_FOUND", logs))
    /\ pc' = "done"
    /\ UNCHANGED <<fn, pmid, doi, title, pmcid, src_i, pmc_text, results, metadata, calls>>
    /\ UNCHANGED <<clVars, cacheVars, pdfVars, brVars, ccVars, netVars, args, found, paper_result>>

(***************************************************************************)
(* PaperService.resolve_paper (paper_service.py:136-163)                   *)
(***************************************************************************)
EmptyPyStr == Str(<<>>)

\* "x if x else None", the arguments _resolve_paper_content passes on
OrNone(v) == IF Truthy(v) THEN v ELSE None

\* resolve_paper up to its call of resolve_full_text: the title search when
\* only a title is given, then _resolve_paper_content if there is a DOI or PMID
ResolvePaper ==
    /\ fn = "resolve_paper" /\ pc = "title"
    /\ LET result_doi == Or(doi, EmptyPyStr)
           result_pmid == Or(pmid, EmptyPyStr)
           result_title == Or(title, EmptyPyStr)
       IN IF Truthy(title) /\ ~(Truthy(doi) \/ Truthy(pmid))
             THEN /\ calls' = Append(calls, Call("search_paper_by_title", title, None))
                  /\ \/ \* re.sub on a non-str title, or an exception escaping the search
                        /\ ret' = Raises(IF title.k = "obj" THEN "TypeError" ELSE "Exception")
                        /\ pc' = "done"
                        /\ UNCHANGED <<fn, doi, pmid, title, found>>
                     \/ /\ title.k = "str"
                        /\ \E f \in FoundIds :
                             LET d == MergeFound(f[1], result_doi)
                                 p == MergeFound(f[2], result_pmid)
                             IN /\ found' = f
                                /\ doi' = OrNone(d)
                                /\ pmid' = OrNone(p)
                                /\ title' = OrNone(result_title)
                                /\ IF Truthy(d) \/ Truthy(p)
                                      THEN fn' = "rft" /\ pc' = "pmc" /\ UNCHANGED ret
                                      ELSE /\ pc' = "done"
                                           /\ ret' = Returned(NoText, EmptyDict)
                                           /\ UNCHANGED fn
             ELSE /\ doi' = OrNone(result_doi)
                  /\ pmid' = OrNone(result_pmid)
                  /\ title' = OrNone(result_title)
                  /\ IF Truthy(result_doi) \/ Truthy(result_pmid)
                        THEN fn' = "rft" /\ pc' = "pmc" /\ UNCHANGED ret
                        ELSE /\ pc' = "done"
                             /\ ret' = Returned(NoText, EmptyDict)
                             /\ UNCHANGED fn
                  /\ UNCHANGED <<calls, found>>
    /\ UNCHANGED <<pmcid, src_i, pmc_text, results, access_logs, metadata>>
    /\ UNCHANGED <<clVars, cacheVars, pdfVars, brVars, ccVars, netVars, args, paper_result>>

(***************************************************************************)
(* PaperService._resolve_paper_content (paper_service.py:195-250)          *)
(***************************************************************************)
\* a str field of PaperResult: a text, cut to max_text_length or not
Stored(t, truncated) == [t |-> t, truncated |-> truncated]

\* PaperResult() as the dataclass leaves the fields the method sets
NoPaperResult ==
    [has_full_text |-> FALSE, has_abstract |-> FALSE,
     full_text |-> Stored(EmptyText, FALSE), abstract |-> Stored(EmptyText, FALSE),
     text_length |-> 0, access_status |-> ""]

\* PaperService.__init__(max_text_length=10000), and a small limit
DefaultMaxTextLength == 10000
SmallMaxTextLength == 100
MaxTextLengths == {DefaultMaxTextLength, SmallMaxTextLength}

\* the branch `if full_text:` (lines 208-229)
ContentOfText(r, full_text, has_ft, max_text_length) ==
    LET r1 == [r EXCEPT !.has_full_text = has_ft,
                        !.has_abstract = TextTruthy(full_text) /\ ~has_ft,
                        !.text_length = TextLen(full_text)]
        r2 == IF TextLen(full_text) > max_text_length
                 THEN [r1 EXCEPT !.full_text = Stored(full_text, TRUE)]
              ELSE IF has_ft
                 THEN [r1 EXCEPT !.full_text = Stored(full_text, FALSE)]
              ELSE [r1 EXCEPT !.abstract = Stored(full_text, FALSE)]
    IN [r2 EXCEPT !.access_status = IF has_ft THEN "Full Text Available"
                                    ELSE "Abstract Only"]

\* _resolve_paper_content once resolve_full_text has returned or raised; ret
\* keeps what resolve_full_text gave, paper_result is what the caller gets
ResolvePaperContent ==
    /\ fn = "rft" /\ pc = "done" /\ args.fn = "resolve_paper"
    /\ paper_result = NoPaperResult
    /\ \E max_text_length \in MaxTextLengths :
         paper_result' =
            IF ret.kind = "raise"
               THEN [paper_result EXCEPT !.access_status = "Error"]
            ELSE IF TextTruthy(ret.text)
               THEN ContentOfText(paper_result, ret.text,
                                  Get(ret.meta, "has_full_text", FALSE), max_text_length)
            ELSE [paper_result EXCEPT !.access_status = "No Content Available"]
    /\ UNCHANGED <<fn, pc, pmid, doi, title, pmcid, src_i, pmc_text, results, access_logs,
                   metadata, ret, calls>>
    /\ UNCHANGED <<clVars, cacheVars, pdfVars, brVars, ccVars, netVars, args, found>>

(***************************************************************************)
(* Idle values of the parts a specification does not exercise              *)
(***************************************************************************)
ClassifyIdle ==
    /\ cl_text = NoText /\ cl_result = FALSE /\ cl_pc = "idle"
ResolveIdle ==
    /\ fn = "none" /\ pc = "idle"
    /\ pmid = None /\ doi = None /\ title = None /\ pmcid = None
    /\ src_i = 1 /\ pmc_text = NoText
    /\ results = <<>> /\ access_logs = <<>> /\ metadata = EmptyDict
    /\ ret = NoRet /\ calls = <<>>
    /\ args = [fn |-> "none", pmid |-> None, doi |-> None, title |-> None]
    /\ found = NotSearched /\ paper_result = NoPaperResult

(***************************************************************************)
(* SpecClassify: is_full_text on every text of at most MaxWords words      *)
(* without filler, or filled up to 4000 or 4001 characters.                *)
(***************************************************************************)
MaxWords == 3

Vocabulary == {"Introduction", "Methods", "RESULTS", "methods", "materials", "and",
               "Table", "1", "data"}

Bodies == UNION {[1..n -> Vocabulary] : n \in 0..MaxWords}

\* no filler, one filler character, or filler up to 4000 resp. 4001 characters
PadChoices(b) ==
    {0, 1, FullTextMinLen - TextLen(Text(b, 0)), FullTextMinLen + 1 - TextLen(Text(b, 0))}

ClassifyInputs ==
    {NoText} \cup UNION {{Text(b, p) : p \in PadChoices(b)} : b \in Bodies}

Classify ==
    /\ cl_pc = "call"
    /\ cl_result' = is_full_text(cl_text)
    /\ cl_pc' = "done"
    /\ UNCHANGED cl_text
    /\ UNCHANGED <<resVars, cacheVars, pdfVars, brVars, ccVars, netVars>>

(***************************************************************************)
(* SpecResolve: one call of either resolver                                *)
(***************************************************************************)
InitResolveCall ==
    /\ fn \in {"rft", "rfte", "resolve_paper"}
    /\ pc = CASE fn = "rfte" -> "validate" [] fn = "rft" -> "pmc" [] OTHER -> "title"
    /\ pmid \in Pmids /\ doi \in Dois /\ title \in Titles
    /\ pmcid = None /\ src_i = 1 /\ pmc_text = NoText
    /\ results = <<>> /\ access_logs = <<>> /\ metadata = EmptyDict
    /\ ret = NoRet /\ calls = <<>>
    /\ args = [fn |-> fn, pmid |-> pmid, doi |-> doi, title |-> title]
    /\ found = NotSearched /\ paper_result = NoPaperResult

NextResolve ==
    \/ ResolvePaper
    \/ ResolvePaperContent
    \/ RFTE_Validate
    \/ RFTE_TitleSearch
    \/ RFTE_GetPmcid
    \/ RFTE_PMC
    \/ RFTE_Source
    \/ RFTE_Aggregate
    \/ RFT_PMC
    \/ RFT_FetchFromSource
    \/ RFT_Rest

(***************************************************************************)
(* The response cache: an OrderedDict as the sequence of its entries       *)
(***************************************************************************)
Entry(key, value) == [key |-> key, value |-> value]
Keys(c) == {c[i].key : i \in DOMAIN c}
\* c[key]
Lookup(c, key) == (CHOOSE i \in DOMAIN c : c[i].key = key)
\* c.pop(key)
Pop(c, key) == SelectSeq(c, LAMBDA e : e.key # key)
\* c.move_to_end(key)
move_to_end(c, key) == Append(Pop(c, key), c[Lookup(c, key)])

\* faulty variant of AIService_add_to_cache: evicts only once the bound is exceeded
AIService_add_to_cache_gt(c, key, value, size) ==
    IF key \in Keys(c) THEN Append(Pop(c, key), Entry(key, value))
    ELSE IF Len(c) > size THEN Append(Tail(c), Entry(key, value))
    ELSE Append(c, Entry(key, value))

\* AIService._add_to_cache (ai_service.py:150-158)
AIService_add_to_cache(c, key, value, size) ==
    IF key \in Keys(c) THEN Append(Pop(c, key), Entry(key, value))
    ELSE IF Len(c) >= size THEN Append(Tail(c), Entry(key, value))
    ELSE Append(c, Entry(key, value))

\* faulty variant of add_to_cache: the size test comes first
add_to_cache_size_first(c, key, value, size) ==
    IF Len(c) >= size THEN Append(Pop(Tail(c), key), Entry(key, value))
    ELSE IF key \in Keys(c) THEN Append(Pop(c, key), Entry(key, value))
    ELSE Append(c, Entry(key, value))

\* add_to_cache (app.py:309-315)
add_to_cache(c, key, value, size) ==
    IF key \in Keys(c) THEN Append(Pop(c, key), Entry(key, value))
    ELSE IF Len(c) >= size THEN Append(Tail(c), Entry(key, value))
    ELSE Append(c, Entry(key, value))

\* recency bookkeeping (an insertion or a cache hit is a use of the key): key
\* was just used; only cached keys are kept
Touch(u, key, c) == SelectSeq(Append(SelectSeq(u, LAMBDA x : x # key), key),
                              LAMBDA x : x \in Keys(c))

MaxCacheSize == 2

Models == {"gpt-4", "gpt-4o-mini"}
fallback_model == "gpt-4o-mini"
\* a query that names a paper (DOI or PMID) and one that does not
Queries == {"what does 10.1016/j1 show", "what is a genome"}
HasIdentifier(q) == q = "what does 10.1016/j1 show"
\* what the resolution put into the prompt
Contexts == {"no paper text", "paper text"}
Replies == {"answer 1"}
ErrorReply == "Error getting response"
\* f"An error occurred: {str(e)}" of the chat handlers
HandlerErrorReply == "An error occurred"

\* f"{model}:{prompt}" (app.py), f"{model}:{hash(prompt)}" (AIService)
CacheKey(model, query, ctx) == [model |-> model, query |-> query, ctx |-> ctx]

NoEv == [op |-> "none", key |-> CacheKey("", "", ""), value |-> "", use_cache |-> FALSE,
         cascade |-> FALSE, repeat |-> FALSE, hit |-> FALSE, inserted |-> FALSE,
         existed |-> FALSE, was_full |-> FALSE, error |-> FALSE,
         model |-> "", attempts |-> <<>>, outcome |-> "none"]

CacheIdle ==
    /\ app_kind = "none" /\ cache_bound = 1 /\ query_cache = <<>> /\ use = <<>>
    /\ seen = {} /\ ev = NoEv

(***************************************************************************)
(* The chat handler of app.py (app.py:398-576)                             *)
(***************************************************************************)
\* A request with query q for model m.  The resolution cascade runs whenever
\* the query names a paper, before the cache is looked at; ctx is what it put
\* into the prompt.  reply is what get_model_response returns when it is
\* called: the provider's answer, or the error string it builds on a failure.
AppChat ==
    /\ app_kind = "app.py"
    /\ \E q \in Queries, m \in Models, ignore_cache \in BOOLEAN, ctx \in Contexts,
          reply \in Replies \cup {ErrorReply} :
         /\ ctx = "paper text" => HasIdentifier(q)
         /\ LET key == CacheKey(m, q, ctx)
                hit == ~ignore_cache /\ key \in Keys(query_cache)
                c1  == IF hit THEN query_cache
                       ELSE add_to_cache(query_cache, key, reply, cache_bound)
            IN /\ hit => reply = ErrorReply    \* no provider call: reply is not used
               /\ query_cache' = c1
               /\ use' = Touch(use, key, c1)
               /\ ev' = [op |-> "chat", key |-> key,
                         value |-> IF hit THEN query_cache[Lookup(query_cache, key)].value
                                   ELSE reply,
                         use_cache |-> ~ignore_cache,
                         cascade |-> HasIdentifier(q),
                         repeat |-> q \in seen,
                         hit |-> hit, inserted |-> ~hit,
                         existed |-> ~hit /\ key \in Keys(query_cache),
                         was_full |-> Len(query_cache) >= cache_bound,
                         error |-> ~hit /\ reply = ErrorReply,
                         model |-> m, attempts |-> <<>>, outcome |-> "rendered"]
         /\ seen' = IF ignore_cache THEN seen ELSE seen \cup {q}
    /\ UNCHANGED <<app_kind, cache_bound>>
    /\ UNCHANGED <<clVars, resVars, pdfVars, brVars, ccVars, netVars>>

(***************************************************************************)
(* AIService.get_response (ai_service.py:72-122) and the chat handler of   *)
(* app/routes/web.py (web.py:51-116)                                       *)
(***************************************************************************)
\* what _get_model_response does when called: a non-empty answer, an empty
\* answer, or ModelNotFoundError / APIError
ProviderOutcomes == Replies \cup {"", "raise"}

\* faulty variant of ShouldFallback: the fallback model is never tried
ShouldFallback_never(fallback_on_error, model) == FALSE

\* if fallback_on_error and model != self.fallback_model
ShouldFallback(fallback_on_error, model) ==
    fallback_on_error /\ model # fallback_model

\* outs: the outcomes of the provider calls this request makes, in order;
\* attempts: the calls of _get_model_response made, with their outcomes
RECURSIVE get_response(_, _, _, _, _, _, _, _)
get_response(c, size, model, q, ctx, use_cache, fallback_on_error, outs) ==
    LET cache_key == CacheKey(model, q, ctx)
        response == Head(outs)
        attempt == << [model |-> model, out |-> response] >>
        base == [cache |-> c, key |-> cache_key, value |-> "", hit |-> FALSE,
                 inserted |-> FALSE, error |-> FALSE, attempts |-> <<>>]
    IN IF use_cache /\ cache_key \in Keys(c)
          THEN [base EXCEPT !.cache = move_to_end(c, cache_key),
                            !.value = c[Lookup(c, cache_key)].value,
                            !.hit = TRUE]
       ELSE IF response \in Replies
          THEN [base EXCEPT !.cache = IF use_cache
                                         THEN AIService_add_to_cache(c, cache_key, response, size)
                                         ELSE c,
                            !.value = response,
                            !.inserted = use_cache,
                            !.attempts = attempt]
       ELSE IF response = ""
          THEN [base EXCEPT !.attempts = attempt]
       ELSE IF ShouldFallback(fallback_on_error, model)
          THEN LET r == get_response(c, size, fallback_model, q, ctx, use_cache, FALSE,
                                     Tail(outs))
               IN [r EXCEPT !.attempts = attempt \o r.attempts]
       ELSE [base EXCEPT !.error = TRUE, !.attempts = attempt]

\* faulty variant of web_chat_handles: only BadRequest is handled
web_chat_handles_bad_request_only(exc) == exc = "BadRequest"

\* the except clauses of chat: BadRequest, then Exception, the base of the
\* exception classes of app/utils/exceptions.py
web_chat_handles(exc) ==
    exc \in {"BadRequest", "ModelNotFoundError", "APIError", "Exception"}

\* paper_service.process_query runs the cascade whenever the query names a
\* paper; then ai_service.get_response(model, prompt, use_cache=not ignore_cache).
\* An exception of get_response ends in the handler's error page.
WebChat ==
    /\ app_kind = "web"
    /\ \E q \in Queries, m \in Models, ignore_cache \in BOOLEAN, ctx \in Contexts,
          o1 \in ProviderOutcomes, o2 \in ProviderOutcomes :
         /\ ctx = "paper text" => HasIdentifier(q)
         /\ o1 # "raise" => o2 = ""          \* no second provider call: o2 is not used
         /\ LET r == get_response(query_cache, cache_bound, m, q, ctx, ~ignore_cache,
                                  TRUE, <<o1, o2>>)
            IN /\ query_cache' = r.cache
               /\ use' = IF r.hit \/ r.inserted THEN Touch(use, r.key, r.cache) ELSE use
               /\ ev' = [op |-> "chat", key |-> r.key,
                         value |-> IF ~r.error THEN r.value
                                   ELSE IF web_chat_handles("APIError")
                                   THEN HandlerErrorReply ELSE "",
                         use_cache |-> ~ignore_cache,
                         cascade |-> HasIdentifier(q),
                         repeat |-> q \in seen,
                         hit |-> r.hit, inserted |-> r.inserted,
                         existed |-> r.inserted /\ r.key \in Keys(query_cache),
                         was_full |-> Len(query_cache) >= cache_bound,
                         error |-> r.error,
                         model |-> m, attempts |-> r.attempts,
                         outcome |-> IF r.error /\ ~web_chat_handles("APIError")
                                        THEN "uncaught" ELSE "rendered"]
         /\ seen' = IF ignore_cache THEN seen ELSE seen \cup {q}
    /\ UNCHANGED <<app_kind, cache_bound>>
    /\ UNCHANGED <<clVars, resVars, pdfVars, brVars, ccVars, netVars>>

\* AIService.clear_cache (ai_service.py:216-219)
ClearCache ==
    /\ app_kind = "web"
    /\ query_cache' = <<>>
    /\ use' = <<>>
    /\ ev' = [NoEv EXCEPT !.op = "clear"]
    /\ UNCHANGED <<app_kind, cache_bound, seen>>
    /\ UNCHANGED <<clVars, resVars, pdfVars, brVars, ccVars, netVars>>

(***************************************************************************)
(* PDF text extraction (resolvers/pdf_extractor.py)                        *)
(***************************************************************************)
\* A text is known by the method that produced it, by the length of its
\* stripped content (core) and by the whitespace around it (ws).
PdfNone == [k |-> "none", by |-> "", core |-> 0, ws |-> 0]
PdfStr(by, core, ws) == [k |-> "str", by |-> by, core |-> core, ws |-> ws]
EmptyStr == PdfStr("", 0, 0)
PdfPending == [k |-> "pending", by |-> "", core |-> 0, ws |-> 0]
PdfTruthy(t) == t.k = "str" /\ t.core + t.ws > 0
\* len(text.strip())
StrippedLen(t) == t.core

MinPdfTextLen == 200
MinPdfBytes == 1000

\* faulty variant of PdfAccepts: a text of exactly 200 characters is accepted
PdfAccepts_ge(text) == PdfTruthy(text) /\ StrippedLen(text) >= MinPdfTextLen

\* text and len(text.strip()) > 200
PdfAccepts(text) == PdfTruthy(text) /\ StrippedLen(text) > MinPdfTextLen

Libraries == {"pdfplumber", "pymupdf", "pdfminer"}

\* the module-level names the guarded imports bind for the installed libraries
ModuleGlobals(installed) ==
    (IF "pdfplumber" \in installed THEN {"pdfplumber"} ELSE {})
    \cup (IF "pymupdf" \in installed THEN {"fitz"} ELSE {})
    \cup (IF "pdfminer" \in installed THEN {"pdfminer_extract_text"} ELSE {})

\* the list extract_text_from_pdf_bytes builds from globals()
BuildExtractionMethods(g) ==
    (IF "pdfplumber" \in g THEN <<"extract_with_pdfplumber">> ELSE <<>>)
    \o (IF "fitz" \in g THEN <<"extract_with_pymupdf">> ELSE <<>>)
    \o (IF "pdfminer" \in g THEN <<"extract_with_pdfminer">> ELSE <<>>)

\* what a method can produce: "", whitespace only, 200 characters between
\* whitespace, 201 characters
PdfStrings(by) ==
    {PdfStr(by, 0, 0), PdfStr(by, 0, 1), PdfStr(by, MinPdfTextLen, 1),
     PdfStr(by, MinPdfTextLen + 1, 0)}
PdfRaised == [k |-> "raise", by |-> "", core |-> 0, ws |-> 0]
MethodOutcomes(method) == {PdfRaised, PdfNone} \cup PdfStrings(method)

PdfSizes == {0, MinPdfBytes - 1, MinPdfBytes}

\* no download was made
NoResponse == [status_code |-> 0, has_text |-> FALSE]
PdfIdle ==
    /\ pdf_pc = "idle" /\ pdf_caller = "none" /\ pdf_globals = {} /\ pdf_size = 0
    /\ extraction_methods = <<>> /\ pdf_i = 1 /\ pdf_text = EmptyStr
    /\ pdf_trace = <<>> /\ pdf_ocr = "not tried" /\ pdf_ret = PdfPending
    /\ ext_trace = <<>> /\ pdf_final = PdfPending /\ pdf_response = NoResponse

\* extract_text_from_pdf_bytes, lines 78-89: text = "", extraction_methods
PDF_BuildMethods ==
    /\ pdf_pc = "start"
    /\ pdf_text' = EmptyStr
    /\ extraction_methods' = BuildExtractionMethods(pdf_globals)
    /\ pdf_i' = 1
    /\ pdf_pc' = "methods"
    /\ UNCHANGED <<pdf_caller, pdf_response, pdf_globals, pdf_size, pdf_trace, pdf_ocr, pdf_ret,
                   ext_trace, pdf_final>>
    /\ UNCHANGED <<clVars, resVars, cacheVars, brVars, ccVars, netVars>>

\* one iteration of "for method in extraction_methods" (lines 92-98)
PDF_TryMethod ==
    /\ pdf_pc = "methods" /\ pdf_i <= Len(extraction_methods)
    /\ \E o \in MethodOutcomes(extraction_methods[pdf_i]) :
         /\ pdf_trace' = Append(pdf_trace, [m |-> extraction_methods[pdf_i], out |-> o])
         /\ IF o = PdfRaised
               THEN /\ pdf_i' = pdf_i + 1
                    /\ UNCHANGED <<pdf_text, pdf_ret, pdf_pc>>
               ELSE /\ pdf_text' = o
                    /\ IF PdfAccepts(o)
                          THEN /\ pdf_ret' = o
                               /\ pdf_pc' = "returned"
                               /\ UNCHANGED pdf_i
                          ELSE /\ pdf_i' = pdf_i + 1
                               /\ UNCHANGED <<pdf_ret, pdf_pc>>
    /\ UNCHANGED <<pdf_caller, pdf_response, pdf_globals, pdf_size, extraction_methods, pdf_ocr,
                   ext_trace, pdf_final>>
    /\ UNCHANGED <<clVars, resVars, cacheVars, brVars, ccVars, netVars>>

OcrImportError == [k |-> "ImportError", by |-> "ocr", core |-> 0, ws |-> 0]
OcrOutcomes == {OcrImportError, PdfRaised,
                PdfStr("ocr", 0, 0), PdfStr("ocr", MinPdfTextLen + 1, 0)}

\* the OCR fallback and the final "return text" (lines 100-117)
PDF_OCR ==
    /\ pdf_pc = "methods" /\ pdf_i > Len(extraction_methods)
    /\ \E o \in OcrOutcomes :
         CASE o = OcrImportError -> pdf_ocr' = "unavailable" /\ pdf_ret' = pdf_text
           [] o = PdfRaised      -> pdf_ocr' = "failed" /\ pdf_ret' = pdf_text
           [] OTHER             -> pdf_ocr' = "ok" /\ pdf_ret' = o
    /\ pdf_pc' = "returned"
    /\ UNCHANGED <<pdf_caller, pdf_response, pdf_globals, pdf_size, extraction_methods, pdf_i,
                   pdf_text, pdf_trace, ext_trace, pdf_final>>
    /\ UNCHANGED <<clVars, resVars, cacheVars, brVars, ccVars, netVars>>

\* what the caller does with the text (extract_text_from_pdf_url_advanced,
\* lines 321-328: "if text: return text", else the external tools)
PDF_CallerContinues ==
    /\ pdf_pc = "returned"
    /\ IF pdf_caller = "extract_text_from_pdf_url_advanced" /\ ~PdfTruthy(pdf_ret)
          THEN pdf_pc' = "external" /\ UNCHANGED pdf_final
          ELSE pdf_pc' = "done" /\ pdf_final' = pdf_ret
    /\ UNCHANGED <<pdf_caller, pdf_response, pdf_globals, pdf_size, extraction_methods, pdf_i,
                   pdf_text, pdf_trace, pdf_ocr, pdf_ret, ext_trace>>
    /\ UNCHANGED <<clVars, resVars, cacheVars, brVars, ccVars, netVars>>

ToolOutcomes(tool) == {PdfRaised} \cup PdfStrings(tool)

\* the two commands of extract_text_with_external_tools, in order
external_tools == <<"pdftotext", "pdf2txt.py">>

\* extract_text_with_external_tools (lines 120-177)
PDF_ExternalTools ==
    /\ pdf_pc = "external"
    /\ IF pdf_size < MinPdfBytes
          THEN /\ pdf_final' = PdfNone
               /\ UNCHANGED ext_trace
          ELSE \E write_ok \in BOOLEAN :
               \E o1 \in ToolOutcomes(external_tools[1]) :
               \E o2 \in ToolOutcomes(external_tools[2]) :
                 /\ (~write_ok \/ PdfAccepts(o1)) => o2 = PdfRaised
                 /\ ~write_ok => o1 = PdfRaised
                 /\ IF ~write_ok
                       THEN /\ ext_trace' = Append(ext_trace, [m |-> "open", out |-> PdfRaised])
                            /\ pdf_final' = PdfNone
                       ELSE IF PdfAccepts(o1)
                       THEN /\ ext_trace' = Append(ext_trace, [m |-> external_tools[1], out |-> o1])
                            /\ pdf_final' = o1
                       ELSE /\ ext_trace' = ext_trace \o
                                            << [m |-> external_tools[1], out |-> o1],
                                               [m |-> external_tools[2], out |-> o2] >>
                            /\ pdf_final' = IF PdfAccepts(o2) THEN o2 ELSE PdfNone
    /\ pdf_pc' = "done"
    /\ UNCHANGED <<pdf_caller, pdf_response, pdf_globals, pdf_size, extraction_methods, pdf_i,
                   pdf_text, pdf_trace, pdf_ocr, pdf_ret>>
    /\ UNCHANGED <<clVars, resVars, cacheVars, brVars, ccVars, netVars>>

\* --- extract_text_from_pdf_url of utils/full_text_resolver.py (540-552) ---
UtilsPdfUrl == "utils.full_text_resolver.extract_text_from_pdf_url"

\* the module-level names of utils/full_text_resolver.py that the PDF code
\* uses: those its guarded imports bind (lines 22-35) and its own functions
\* (lines 513-552); the statements of an extract_text_from_pdf_bytes are the
\* body of cached_resolve_full_text (lines 479-510), and no function of that
\* name is defined or imported
UtilsModuleGlobals(installed) ==
    (IF "pdfplumber" \in installed THEN {"pdfplumber"} ELSE {})
    \cup (IF "pymupdf" \in installed THEN {"fitz"} ELSE {})
    \cup (IF "pdfminer" \in installed THEN {"extract_text_to_fp"} ELSE {})
    \cup {"cached_resolve_full_text", "extract_with_pdfplumber", "extract_with_pymupdf",
          "extract_with_pdfminer", "extract_text_from_pdf_url"}

\* what requests.get(url) can give: a response with a status code, whose
\* content is a PDF with a text layer or not; NoResponse when it raises
HttpOk == 200
HttpNotFound == 404
PdfResponses ==
    [status_code : {HttpOk, HttpNotFound}, has_text : BOOLEAN] \cup {NoResponse}

\* the whole function: the download, then `return
\* extract_text_from_pdf_bytes(response.content)` inside the try, whose name
\* lookup raises NameError, caught by `except Exception` (return None)
UTILS_ExtractTextFromPdfUrl ==
    /\ pdf_pc = "download" /\ pdf_caller = UtilsPdfUrl
    /\ \E r \in PdfResponses :
         /\ pdf_response' = r
         /\ pdf_final' = IF r.status_code = HttpOk
                            /\ "extract_text_from_pdf_bytes" \in pdf_globals
                            /\ r.has_text
                            THEN PdfStr("library", 1, 0)
                            ELSE PdfNone
    /\ pdf_pc' = "done"
    /\ UNCHANGED <<pdf_caller, pdf_globals, pdf_size, extraction_methods, pdf_i,
                   pdf_text, pdf_trace, pdf_ocr, pdf_ret, ext_trace>>
    /\ UNCHANGED <<clVars, resVars, cacheVars, brVars, ccVars, netVars>>

InitPdfCall ==
    /\ pdf_caller \in {"direct", "extract_text_from_pdf_url_advanced", UtilsPdfUrl}
    /\ pdf_pc = IF pdf_caller = UtilsPdfUrl THEN "download" ELSE "start"
    /\ \E installed \in SUBSET Libraries :
         pdf_globals = IF pdf_caller = UtilsPdfUrl THEN UtilsModuleGlobals(installed)
                       ELSE ModuleGlobals(installed)
    /\ pdf_size \in PdfSizes
    /\ extraction_methods = <<>> /\ pdf_i = 1 /\ pdf_text = EmptyStr
    /\ pdf_trace = <<>> /\ pdf_ocr = "not tried" /\ pdf_ret = PdfPending
    /\ ext_trace = <<>> /\ pdf_final = PdfPending /\ pdf_response = NoResponse

NextPdf ==
    \/ PDF_BuildMethods
    \/ PDF_TryMethod
    \/ PDF_OCR
    \/ PDF_CallerContinues
    \/ PDF_ExternalTools
    \/ UTILS_ExtractTextFromPdfUrl

(***************************************************************************)
(* Browser automation: extract_pdf_with_browser (browser_pdf_extractor.py), *)
(* extract_text_with_institutional_access (resolvers/institutional_access.py)*)
(* and fetch_via_institutional_access (full_text_resolver.py)              *)
(***************************************************************************)
MaxUniversities == 2

BrowserFunctions == {"extract_pdf_with_browser",
                     "extract_text_with_institutional_access",
                     "fetch_via_institutional_access"}

\* driver = webdriver.Chrome(...)
StartDriver(ds) == Append(ds, "open")
\* driver.quit() on the driver started last
QuitDriver(ds) == [ds EXCEPT ![Len(ds)] = "quit"]

NoBrowserInput == [selenium |-> TRUE, manager |-> "ok", domain |-> "generic",
                   configured |-> TRUE, credentials |-> TRUE, universities |-> 0]

BrowserIdle ==
    /\ br_fn = "none" /\ br_pc = "idle" /\ br_in = NoBrowserInput /\ br_i = 1
    /\ drivers = <<>> /\ br_steps = <<>> /\ br_ret = "pending"

\* extract_pdf_with_browser up to the creation of the driver (lines 40-96)
EPB_Setup ==
    /\ br_fn = "extract_pdf_with_browser" /\ br_pc = "start"
    /\ \E chrome \in {"ok", "raise"} :
         LET o == IF ~br_in.selenium THEN "ImportError"
                  ELSE IF br_in.manager = "raise" THEN "install raises"
                  ELSE chrome
         IN /\ chrome = "raise" \/ o = "ok"
            /\ br_steps' = Append(br_steps, o)
            /\ IF o = "ok"
                  THEN /\ drivers' = StartDriver(drivers)
                       /\ br_pc' = "extract"
                       /\ UNCHANGED br_ret
                  ELSE /\ br_ret' = "None"
                       /\ br_pc' = "done"
                       /\ UNCHANGED drivers
    /\ UNCHANGED <<br_fn, br_in, br_i>>
    /\ UNCHANGED <<clVars, resVars, cacheVars, pdfVars, ccVars, netVars>>

\* _handle_aacr_journals or _generic_pdf_extraction inside the inner try
\* (lines 98-105)
EPB_Extract ==
    /\ br_fn = "extract_pdf_with_browser" /\ br_pc = "extract"
    /\ \E o \in {"text", "None", "raise"} :
         /\ br_steps' = Append(br_steps, br_in.domain) \o <<o>>
         /\ br_ret' = IF o = "text" THEN "text" ELSE "None"
    /\ br_pc' = "finally"
    /\ UNCHANGED <<br_fn, br_in, br_i, drivers>>
    /\ UNCHANGED <<clVars, resVars, cacheVars, pdfVars, ccVars, netVars>>

\* finally: driver.quit() (lines 107-109); an exception of quit ends in the
\* outer handler, which returns None
EPB_Finally ==
    /\ br_fn = "extract_pdf_with_browser" /\ br_pc = "finally"
    /\ drivers' = QuitDriver(drivers)
    /\ \E quit_raises \in BOOLEAN :
         /\ br_steps' = Append(br_steps, IF quit_raises THEN "quit raises" ELSE "quit")
         /\ br_ret' = IF quit_raises THEN "None" ELSE br_ret
    /\ br_pc' = "done"
    /\ UNCHANGED <<br_fn, br_in, br_i>>
    /\ UNCHANGED <<clVars, resVars, cacheVars, pdfVars, ccVars, netVars>>

\* the checks before the browser is started (institutional_access.py:90-106)
EIA_Check ==
    /\ br_fn = "extract_text_with_institutional_access" /\ br_pc = "start"
    /\ IF br_in.configured /\ br_in.credentials
          THEN br_pc' = "driver" /\ UNCHANGED br_ret
          ELSE br_pc' = "done" /\ br_ret' = "None"
    /\ br_steps' = Append(br_steps, "check")
    /\ UNCHANGED <<br_fn, br_in, br_i, drivers>>
    /\ UNCHANGED <<clVars, resVars, cacheVars, pdfVars, ccVars, netVars>>

\* driver = webdriver.Chrome(options=chrome_options) (line 123)
EIA_Start ==
    /\ br_fn = "extract_text_with_institutional_access" /\ br_pc = "driver"
    /\ \E chrome \in {"ok", "raise"} :
         /\ br_steps' = Append(br_steps, chrome)
         /\ IF chrome = "ok"
               THEN /\ drivers' = StartDriver(drivers)
                    /\ br_pc' = "load"
                    /\ UNCHANGED br_ret
               ELSE /\ br_ret' = "None"
                    /\ br_pc' = "finally"
                    /\ UNCHANGED drivers
    /\ UNCHANGED <<br_fn, br_in, br_i>>
    /\ UNCHANGED <<clVars, resVars, cacheVars, pdfVars, ccVars, netVars>>

\* driver.get(proxy_url) and the login form (lines 126-149)
EIA_Load ==
    /\ br_fn = "extract_text_with_institutional_access" /\ br_pc = "load"
    /\ \E o \in {"logged in", "TimeoutException", "raise"} :
         /\ br_steps' = Append(br_steps, o)
         /\ IF o = "raise"
               THEN br_ret' = "None" /\ br_pc' = "finally"
               ELSE br_pc' = "scrape" /\ UNCHANGED br_ret
    /\ UNCHANGED <<br_fn, br_in, br_i, drivers>>
    /\ UNCHANGED <<clVars, resVars, cacheVars, pdfVars, ccVars, netVars>>

\* the content selectors, the page body and the PDF links (lines 151-211)
EIA_Scrape ==
    /\ br_fn = "extract_text_with_institutional_access" /\ br_pc = "scrape"
    /\ \E o \in {"selector text", "body text", "pdf text", "nothing", "raise"} :
         /\ br_steps' = Append(br_steps, o)
         /\ br_ret' = IF o \in {"selector text", "body text", "pdf text"}
                         THEN "text" ELSE "None"
    /\ br_pc' = "finally"
    /\ UNCHANGED <<br_fn, br_in, br_i, drivers>>
    /\ UNCHANGED <<clVars, resVars, cacheVars, pdfVars, ccVars, netVars>>

\* finally: try: driver.quit() except: pass (lines 216-220); without a driver
\* the NameError of the unbound local is swallowed
EIA_Finally ==
    /\ br_fn = "extract_text_with_institutional_access" /\ br_pc = "finally"
    /\ drivers' = IF drivers # <<>> THEN QuitDriver(drivers) ELSE drivers
    /\ br_steps' = Append(br_steps, "finally")
    /\ br_pc' = "done"
    /\ UNCHANGED <<br_fn, br_in, br_i, br_ret>>
    /\ UNCHANGED <<clVars, resVars, cacheVars, pdfVars, ccVars, netVars>>

\* one university of fetch_via_institutional_access: the import of selenium
\* and webdriver.Chrome() (full_text_resolver.py:228-238)
FVIA_Start ==
    /\ br_fn = "fetch_via_institutional_access" /\ br_pc = "loop"
    /\ br_i <= br_in.universities
    /\ \E chrome \in {"ok", "raise"} :
         LET o == IF ~br_in.selenium THEN "ImportError" ELSE chrome
         IN /\ chrome = "raise" \/ o = "ok"
            /\ br_steps' = Append(br_steps, o)
            /\ IF o = "ok"
                  THEN /\ drivers' = StartDriver(drivers)
                       /\ br_pc' = "get"
                       /\ UNCHANGED br_i
                  ELSE /\ br_i' = br_i + 1
                       /\ UNCHANGED <<drivers, br_pc>>
    /\ UNCHANGED <<br_fn, br_in, br_ret>>
    /\ UNCHANGED <<clVars, resVars, cacheVars, pdfVars, ccVars, netVars>>

\* driver.get(proxy_url); html = driver.page_source (lines 239-241); an
\* exception goes to the except clause of line 256 and the loop continues
FVIA_Get ==
    /\ br_fn = "fetch_via_institutional_access" /\ br_pc = "get"
    /\ \E o \in {"ok", "raise"} :
         /\ br_steps' = Append(br_steps, o)
         /\ IF o = "ok"
               THEN br_pc' = "quit" /\ UNCHANGED br_i
               ELSE br_pc' = "loop" /\ br_i' = br_i + 1
    /\ UNCHANGED <<br_fn, br_in, drivers, br_ret>>
    /\ UNCHANGED <<clVars, resVars, cacheVars, pdfVars, ccVars, netVars>>

\* driver.quit() and the processing of the HTML (lines 242-255)
FVIA_Quit ==
    /\ br_fn = "fetch_via_institutional_access" /\ br_pc = "quit"
    /\ drivers' = QuitDriver(drivers)
    /\ \E o \in {"content", "no content", "raise"} :
         /\ br_steps' = Append(br_steps, o)
         /\ IF o = "content"
               THEN br_ret' = "text" /\ br_pc' = "done" /\ UNCHANGED br_i
               ELSE br_pc' = "loop" /\ br_i' = br_i + 1 /\ UNCHANGED br_ret
    /\ UNCHANGED <<br_fn, br_in>>
    /\ UNCHANGED <<clVars, resVars, cacheVars, pdfVars, ccVars, netVars>>

\* return None after the loop (line 258)
FVIA_End ==
    /\ br_fn = "fetch_via_institutional_access" /\ br_pc = "loop"
    /\ br_i > br_in.universities
    /\ br_ret' = "None"
    /\ br_pc' = "done"
    /\ br_steps' = Append(br_steps, "end")
    /\ UNCHANGED <<br_fn, br_in, br_i, drivers>>
    /\ UNCHANGED <<clVars, resVars, cacheVars, pdfVars, ccVars, netVars>>

InitBrowserCall ==
    /\ br_fn \in BrowserFunctions
    /\ br_pc = IF br_fn = "fetch_via_institutional_access" THEN "loop" ELSE "start"
    /\ \E sel \in BOOLEAN, man \in {"ok", "ImportError", "raise"},
          dom \in {"aacrjournals.org", "generic"}, conf \in BOOLEAN, cred \in BOOLEAN,
          n \in 0..MaxUniversities :
         /\ br_in = [selenium |-> sel, manager |-> man, domain |-> dom,
                     configured |-> conf, credentials |-> cred, universities |-> n]
         \* each function reads its own part of the input
         /\ br_fn # "extract_pdf_with_browser" => man = "ok" /\ dom = "generic"
         /\ br_fn # "extract_text_with_institutional_access" => conf /\ cred
         /\ br_fn = "extract_text_with_institutional_access" => sel
         /\ br_fn # "fetch_via_institutional_access" => n = 0
    /\ br_i = 1 /\ drivers = <<>> /\ br_steps = <<>> /\ br_ret = "pending"

NextBrowser ==
    \/ EPB_Setup \/ EPB_Extract \/ EPB_Finally
    \/ EIA_Check \/ EIA_Start \/ EIA_Load \/ EIA_Scrape \/ EIA_Finally
    \/ FVIA_Start \/ FVIA_Get \/ FVIA_Quit \/ FVIA_End

(***************************************************************************)
(* Threads of the web server calling AIService.get_response on the shared  *)
(* ai_service of app/routes/web.py.  A step is one method call on the      *)
(* OrderedDict; the service holds no lock.                                  *)
(***************************************************************************)
NumThreads == 2
MaxCalls == 3

Threads == 1..NumThreads

IdleThread == [pc |-> "idle", model |-> "", q |-> "", use_cache |-> FALSE,
               fallback_on_error |-> FALSE, response |-> "", err |-> ""]

ThreadsIdle == threads = [t \in Threads |-> IdleThread] /\ started = 0

\* cache_key = f"{model}:{hash(prompt)}"
ThreadKey(t) == CacheKey(threads[t].model, threads[t].q, "no paper text")

\* thread t goes to position p
Goto(t, p) == [threads EXCEPT ![t].pc = p]
\* an exception leaves get_response in thread t
Fail(t, e) == [threads EXCEPT ![t].pc = "done", ![t].err = e]

\* web.py chat calls ai_service.get_response(model, prompt, use_cache)
T_Call(t) ==
    /\ threads[t].pc \in {"idle", "done"} /\ started < MaxCalls
    /\ \E m \in Models, q \in Queries, use_cache \in BOOLEAN :
         threads' = [threads EXCEPT ![t] =
                        [pc |-> IF use_cache THEN "get" ELSE "model",
                         model |-> m, q |-> q, use_cache |-> use_cache,
                         fallback_on_error |-> TRUE, response |-> "", err |-> ""]]
    /\ started' = started + 1
    /\ UNCHANGED query_cache
    /\ UNCHANGED <<app_kind, cache_bound, use, seen, ev>>
    /\ UNCHANGED <<clVars, resVars, pdfVars, brVars, netVars>>

\* cached_response = self.query_cache.get(cache_key); if cached_response:
T_Get(t) ==
    /\ threads[t].pc = "get"
    /\ threads' = Goto(t, IF ThreadKey(t) \in Keys(query_cache) THEN "move" ELSE "model")
    /\ UNCHANGED <<query_cache, started>>
    /\ UNCHANGED <<app_kind, cache_bound, use, seen, ev>>
    /\ UNCHANGED <<clVars, resVars, pdfVars, brVars, netVars>>

\* self.query_cache.move_to_end(cache_key); return cached_response
T_MoveToEnd(t) ==
    /\ threads[t].pc = "move"
    /\ IF ThreadKey(t) \in Keys(query_cache)
          THEN /\ query_cache' = move_to_end(query_cache, ThreadKey(t))
               /\ threads' = Goto(t, "done")
          ELSE /\ threads' = Fail(t, "KeyError")
               /\ UNCHANGED query_cache
    /\ UNCHANGED started
    /\ UNCHANGED <<app_kind, cache_bound, use, seen, ev>>
    /\ UNCHANGED <<clVars, resVars, pdfVars, brVars, netVars>>

\* response = self._get_model_response(model, prompt) and the except clause
T_Model(t) ==
    /\ threads[t].pc = "model"
    /\ \E o \in ProviderOutcomes :
         threads' =
            IF o \in Replies
               THEN [threads EXCEPT ![t].response = o,
                                    ![t].pc = IF threads[t].use_cache THEN "contains"
                                              ELSE "done"]
            ELSE IF o = ""
               THEN Goto(t, "done")
            ELSE IF ShouldFallback(threads[t].fallback_on_error, threads[t].model)
               THEN [threads EXCEPT ![t].model = fallback_model,
                                    ![t].fallback_on_error = FALSE,
                                    ![t].pc = IF threads[t].use_cache THEN "get"
                                              ELSE "model"]
            ELSE Fail(t, "APIError")
    /\ UNCHANGED <<query_cache, started>>
    /\ UNCHANGED <<app_kind, cache_bound, use, seen, ev>>
    /\ UNCHANGED <<clVars, resVars, pdfVars, brVars, netVars>>

\* _add_to_cache: if key in self.query_cache ... elif len(...) >= self.cache_size
T_Contains(t) ==
    /\ threads[t].pc = "contains"
    /\ threads' = Goto(t, IF ThreadKey(t) \in Keys(query_cache) THEN "pop"
                          ELSE IF Len(query_cache) >= cache_bound THEN "popitem"
                          ELSE "set")
    /\ UNCHANGED <<query_cache, started>>
    /\ UNCHANGED <<app_kind, cache_bound, use, seen, ev>>
    /\ UNCHANGED <<clVars, resVars, pdfVars, brVars, netVars>>

\* self.query_cache.pop(key)
T_Pop(t) ==
    /\ threads[t].pc = "pop"
    /\ IF ThreadKey(t) \in Keys(query_cache)
          THEN /\ query_cache' = Pop(query_cache, ThreadKey(t))
               /\ threads' = Goto(t, "set")
          ELSE /\ threads' = Fail(t, "KeyError")
               /\ UNCHANGED query_cache
    /\ UNCHANGED started
    /\ UNCHANGED <<app_kind, cache_bound, use, seen, ev>>
    /\ UNCHANGED <<clVars, resVars, pdfVars, brVars, netVars>>

\* self.query_cache.popitem(last=False)
T_PopItem(t) ==
    /\ threads[t].pc = "popitem"
    /\ IF query_cache # <<>>
          THEN /\ query_cache' = Tail(query_cache)
               /\ threads' = Goto(t, "set")
          ELSE /\ threads' = Fail(t, "KeyError")
               /\ UNCHANGED query_cache
    /\ UNCHANGED started
    /\ UNCHANGED <<app_kind, cache_bound, use, seen, ev>>
    /\ UNCHANGED <<clVars, resVars, pdfVars, brVars, netVars>>

\* self.query_cache[key] = value; return response
T_SetItem(t) ==
    /\ threads[t].pc = "set"
    /\ query_cache' =
          IF ThreadKey(t) \in Keys(query_cache)
             THEN [query_cache EXCEPT ![Lookup(query_cache, ThreadKey(t))].value =
                                          threads[t].response]
             ELSE Append(query_cache, Entry(ThreadKey(t), threads[t].response))
    /\ threads' = Goto(t, "done")
    /\ UNCHANGED started
    /\ UNCHANGED <<app_kind, cache_bound, use, seen, ev>>
    /\ UNCHANGED <<clVars, resVars, pdfVars, brVars, netVars>>

NextThreads ==
    \E t \in Threads :
       \/ T_Call(t) \/ T_Get(t) \/ T_MoveToEnd(t) \/ T_Model(t)
       \/ T_Contains(t) \/ T_Pop(t) \/ T_PopItem(t) \/ T_SetItem(t)

(***************************************************************************)
(* retry_request (resolvers/decorators.py:8-27 and                         *)
(* utils/full_text_resolver.py:1113-1132)                                  *)
(***************************************************************************)
\* time.sleep arguments are counted in quarter seconds
Seconds(n) == 4 * n

\* the two modules that define the decorator
RetryModules == {"resolvers.decorators", "utils.full_text_resolver"}

\* max_retries = 3, base_delay = 1 (both copies)
retry_max_retries == 3
base_delay == 1

Returns(v) == [kind |-> "return", v |-> v]
RaisesExc(e) == [kind |-> "raise", v |-> e]
Pending == [kind |-> "none", v |-> "none"]

\* what one invocation of the wrapped function can do: return a value, raise
\* requests.RequestException or a subclass of it (Timeout), the built-in
\* ConnectionError, or another exception
FuncOutcomes ==
    {Returns("None"), Returns("text"), RaisesExc("RequestException"),
     RaisesExc("Timeout"), RaisesExc("ConnectionError"), RaisesExc("ValueError")}

\* Evaluating the tuple of the except clause: decorators.py writes
\* requests.RequestException; full_text_resolver.py writes RequestException,
\* a name the module never binds (it only has `import requests`)
ExceptClauseEvaluates(module) == module = "resolvers.decorators"

\* isinstance(e, (RequestException, ConnectionError))
IsRetryable(e) == e \in {"RequestException", "Timeout", "ConnectionError"}

\* random.uniform(0, 0.5), resp. random.random() * 0.5: 0 <= jitter < 0.5 s
Jitters == {0, 1}

\* base_delay * (2**attempt), in quarter seconds
Backoff(attempt) == Seconds(base_delay * (2 ^ attempt))

\* `return func(*args, **kwargs)` inside the try of the loop
RT_Invoke ==
    /\ rt_pc = "call"
    /\ \E o \in FuncOutcomes :
         /\ rt_trace' = Append(rt_trace, o)
         /\ IF o.kind = "return"
               THEN rt_ret' = o /\ rt_pc' = "done"
            ELSE IF ~ExceptClauseEvaluates(rt_module)
               THEN rt_ret' = RaisesExc("NameError") /\ rt_pc' = "done"
            ELSE IF ~IsRetryable(o.v)
               THEN rt_ret' = o /\ rt_pc' = "done"
            ELSE IF rt_attempt = retry_max_retries - 1
               THEN rt_ret' = o /\ rt_pc' = "done"
            ELSE rt_pc' = "sleep" /\ UNCHANGED rt_ret
    /\ UNCHANGED <<rt_module, rt_attempt, rt_sleeps>>
    /\ UNCHANGED <<clVars, resVars, cacheVars, pdfVars, brVars, ccVars, llmVars, jsVars>>

\* delay = base_delay * (2**attempt) + random.uniform(0, 0.5); time.sleep(delay)
RT_Sleep ==
    /\ rt_pc = "sleep"
    /\ \E jitter \in Jitters :
         rt_sleeps' = Append(rt_sleeps, Backoff(rt_attempt) + jitter)
    /\ rt_attempt' = rt_attempt + 1
    /\ rt_pc' = "call"
    /\ UNCHANGED <<rt_module, rt_trace, rt_ret>>
    /\ UNCHANGED <<clVars, resVars, cacheVars, pdfVars, brVars, ccVars, llmVars, jsVars>>

RetryIdle ==
    /\ rt_module = "none" /\ rt_pc = "idle" /\ rt_attempt = 0
    /\ rt_trace = <<>> /\ rt_sleeps = <<>> /\ rt_ret = Pending

InitRetryCall ==
    /\ rt_module \in RetryModules /\ rt_pc = "call" /\ rt_attempt = 0
    /\ rt_trace = <<>> /\ rt_sleeps = <<>> /\ rt_ret = Pending

NextRetry == RT_Invoke \/ RT_Sleep

\* no rate-limit error yet, no sleep yet
NoHint == -1
NoMessage == [phrase |-> FALSE, tail |-> <<>>, hint |-> NoHint]
NoWait == [hint |-> NoHint, slept |-> 0]

LlmIdle ==
    /\ sc_fn = "none" /\ sc_pc = "idle" /\ sc_attempt = 0
    /\ sc_trace = <<>> /\ sc_msg = NoMessage /\ sc_wait = NoWait /\ sc_ret = Pending

\* the selectors the model follows on a page
PageSelectors == {"article", "div.article-body", "div.fulltext", "div.Body"}

\* no page was requested
NoPage == [status_code |-> 0, elems |-> [sel \in PageSelectors |-> "absent"]]

\* return values of the scrapers: None, or the text found under a selector
JsPending == [k |-> "pending", sel |-> ""]
JsNone == [k |-> "none", sel |-> ""]
JsText(sel) == [k |-> "str", sel |-> sel]

JournalIdle ==
    /\ js_pc = "idle" /\ js_doi = None /\ js_page = NoPage
    /\ js_trace = <<>> /\ js_ret = JsPending

NetIdle == RetryIdle /\ LlmIdle /\ JournalIdle

(***************************************************************************)
(* safe_create (app.py:143-165) and OpenAIClient._safe_create              *)
(* (app/clients/openai_client.py:61-103)                                   *)
(***************************************************************************)
\* max_retries = 5 (both functions)
llm_max_retries == 5

\* retry_after = 20  # Default retry time
DefaultRetryAfter == 20

DigitValue(c) ==
    CASE c = "0" -> 0 [] c = "1" -> 1 [] c = "2" -> 2 [] c = "3" -> 3 [] c = "4" -> 4
      [] c = "5" -> 5 [] c = "6" -> 6 [] c = "7" -> 7 [] c = "8" -> 8 [] c = "9" -> 9

\* the longest prefix of cs made of digits and dots: group 1 of
\* r"try again in ([\d.]+)" for a message whose text after "try again in "
\* is cs; <<>> when the pattern does not match
RECURSIVE NumberPrefix(_)
NumberPrefix(cs) ==
    IF cs = <<>> \/ Head(cs) \notin Digits \cup {"."} THEN <<>>
    ELSE <<Head(cs)>> \o NumberPrefix(Tail(cs))

RECURSIVE IntValue(_, _)
IntValue(cs, acc) ==
    IF cs = <<>> THEN acc ELSE IntValue(Tail(cs), 10 * acc + DigitValue(Head(cs)))

Dots(cs) == {i \in DOMAIN cs : cs[i] = "."}

\* float(s) raises ValueError unless s is digits with at most one dot
FloatParses(cs) ==
    /\ Cardinality(Dots(cs)) <= 1
    /\ \E i \in DOMAIN cs : cs[i] \in Digits

\* the quarter seconds of a fraction written .0, .25, .5 or .75
FractionQuarters(cs) ==
    CASE cs = <<>> -> 0
      [] cs = <<"0">> -> 0
      [] cs = <<"2", "5">> -> 1
      [] cs = <<"5">> -> 2
      [] cs = <<"7", "5">> -> 3

\* float(s) of such a number, in quarter seconds
FloatValue(cs) ==
    IF Dots(cs) = {} THEN Seconds(IntValue(cs, 0))
    ELSE LET d == CHOOSE i \in Dots(cs) : TRUE
         IN Seconds(IntValue(SubSeq(cs, 1, d - 1), 0))
              + FractionQuarters(SubSeq(cs, d + 1, Len(cs)))

\* retry_after as the except clause computes it from str(e)
retry_after(msg) ==
    IF ~msg.phrase THEN Seconds(DefaultRetryAfter)
    ELSE LET group == NumberPrefix(msg.tail)
         IN IF group = <<>> \/ ~FloatParses(group)
               THEN Seconds(DefaultRetryAfter)
               ELSE FloatValue(group)

\* str(e) of a RateLimitError: whether it holds "Please try again in", the
\* characters that follow "try again in ", and the time it asks the client
\* to wait (NoHint when it names none)
RateLimitMessage(phrase, tail, hint) == [phrase |-> phrase, tail |-> tail, hint |-> hint]

RateLimitMessages ==
    { RateLimitMessage(FALSE, <<>>, NoHint),                              \* "Rate limit reached"
      RateLimitMessage(TRUE, <<"a">>, NoHint),                            \* "... in a moment"
      RateLimitMessage(TRUE, <<"2", "0", "s", ".">>, Seconds(20)),        \* "... in 20s."
      RateLimitMessage(TRUE, <<"3", "0", "s">>, Seconds(30)),             \* "... in 30s"
      RateLimitMessage(TRUE, <<"1", ".", "5", "s">>, Seconds(1) + 2),     \* "... in 1.5s"
      RateLimitMessage(TRUE, <<"2", ".", "5", ".">>, Seconds(2) + 2),     \* "... in 2.5."
      RateLimitMessage(TRUE, <<"1", "m", "3", "0", "s">>, Seconds(90)) }  \* "... in 1m30s"

\* how one call of client.chat.completions.create ends
CreateOutcomes == {"ok", "RateLimitError", "Exception"}

\* the error raised after the loop
MaxRetriesError(f) == IF f = "safe_create" THEN "RuntimeError" ELSE "APIError"

\* `return client.chat.completions.create(**kwargs)` and the except clauses up
\* to their time.sleep
SC_Call ==
    /\ sc_pc = "call"
    /\ \E o \in CreateOutcomes :
         /\ sc_trace' = Append(sc_trace, o)
         /\ CASE o = "ok" ->
                   /\ sc_ret' = Returns("response") /\ sc_pc' = "done"
                   /\ UNCHANGED sc_msg
              [] o = "RateLimitError" ->
                   /\ \E m \in RateLimitMessages : sc_msg' = m
                   /\ sc_pc' = "sleep" /\ UNCHANGED sc_ret
              [] o = "Exception" ->
                   /\ IF sc_fn = "safe_create" \/ sc_attempt = llm_max_retries - 1
                         THEN sc_ret' = RaisesExc("Exception") /\ sc_pc' = "done"
                         ELSE sc_pc' = "sleep" /\ UNCHANGED sc_ret
                   /\ UNCHANGED sc_msg
    /\ UNCHANGED <<sc_fn, sc_attempt, sc_wait>>
    /\ UNCHANGED <<clVars, resVars, cacheVars, pdfVars, brVars, ccVars, retryVars, jsVars>>

\* time.sleep(...) and the next round of the loop, or the raise after it
SC_Sleep ==
    /\ sc_pc = "sleep"
    /\ IF sc_trace[Len(sc_trace)] = "RateLimitError"
          THEN \E jitter \in Jitters :
                  sc_wait' = [hint |-> sc_msg.hint, slept |-> retry_after(sc_msg) + jitter]
          ELSE sc_wait' = [hint |-> NoHint, slept |-> Seconds(2 ^ sc_attempt)]
    /\ IF sc_attempt = llm_max_retries - 1
          THEN /\ sc_ret' = RaisesExc(MaxRetriesError(sc_fn)) /\ sc_pc' = "done"
               /\ UNCHANGED sc_attempt
          ELSE /\ sc_attempt' = sc_attempt + 1 /\ sc_pc' = "call"
               /\ UNCHANGED sc_ret
    /\ UNCHANGED <<sc_fn, sc_trace, sc_msg>>
    /\ UNCHANGED <<clVars, resVars, cacheVars, pdfVars, brVars, ccVars, retryVars, jsVars>>

InitLlmCall ==
    /\ sc_fn \in {"safe_create", "_safe_create"} /\ sc_pc = "call" /\ sc_attempt = 0
    /\ sc_trace = <<>> /\ sc_msg = NoMessage /\ sc_wait = NoWait /\ sc_ret = Pending

NextLlm == SC_Call \/ SC_Sleep

(***************************************************************************)
(* fetch_from_journal_site_enhanced (full_text_resolver.py:1162-1325) and  *)
(* fetch_from_journal_site (full_text_resolver.py:627-704)                 *)
(***************************************************************************)
Chars(a, b, c, d) == <<"1", "0", ".", a, b, c, d>>

\* PUBLISHER_REGISTRY in the order of the dict: DOI prefix and selectors
PUBLISHER_REGISTRY ==
    << [prefix |-> Chars("1", "1", "5", "8"),
        selectors |-> <<"div.article-body", "section.article__sections", "div.hlFld-Fulltext">>],
       [prefix |-> Chars("1", "0", "3", "8"),
        selectors |-> <<"div#article-body", "div.c-article-body", "article.article-body">>],
       [prefix |-> Chars("1", "0", "1", "6"),
        selectors |-> <<"div.article-body", "div.Body">>],
       [prefix |-> Chars("1", "0", "0", "2"),
        selectors |-> <<"div.article__body", "article.article-body">>],
       [prefix |-> Chars("1", "0", "0", "7"),
        selectors |-> <<"div.c-article-body", "div#article-body">>],
       [prefix |-> Chars("1", "0", "9", "3"),
        selectors |-> <<"div.article-body", "div.widget-PdfCanvas">>],
       [prefix |-> Chars("1", "3", "7", "1"),
        selectors |-> <<"div#artText", "div.article-body">>],
       [prefix |-> Chars("1", "0", "1", "6") \o <<"/", "j", ".", "c", "e", "l", "l">>,
        selectors |-> <<"div.article-body">>],
       [prefix |-> Chars("3", "3", "8", "9"),
        selectors |-> <<"div.AbstractText", "div.JournalFullText">>],
       [prefix |-> Chars("1", "1", "8", "6"),
        selectors |-> <<"div#Fulltext">>],
       [prefix |-> Chars("1", "1", "0", "9"),
        selectors |-> <<"div.article", "div.html-article">>] >>

\* get_publisher_info: the entry whose key is the DOI, else the first entry
\* whose key is a prefix of it; 0 stands for None
get_publisher_info(cs) ==
    LET exact == {i \in DOMAIN PUBLISHER_REGISTRY : PUBLISHER_REGISTRY[i].prefix = cs}
        byPrefix == {i \in DOMAIN PUBLISHER_REGISTRY :
                        StartsWith(cs, PUBLISHER_REGISTRY[i].prefix)}
        Min(S) == CHOOSE i \in S : \A j \in S : i <= j
    IN IF exact # {} THEN Min(exact)
       ELSE IF byPrefix # {} THEN Min(byPrefix)
       ELSE 0

\* the generic selectors of fetch_from_journal_site_enhanced (line 1313)
GenericSelectors == <<"article", "div.article-body", "div.fulltext">>

\* publisher_patterns of fetch_from_journal_site with their selector lists,
\* in the order of the dict
PatternSelectors(prefix) ==
    CASE prefix = Chars("1", "1", "5", "8") ->
           <<"div.article-body", "section.article-section__full", "div.hlFld-Fulltext">>
      [] prefix = Chars("1", "0", "1", "6") ->
           <<"div.article-body", "div.Body", "section.article-section">>
      [] prefix = Chars("1", "0", "3", "8") ->
           <<"div#article-body", "div.c-article-body", "article">>
      [] prefix = Chars("1", "0", "0", "2") ->
           <<"div.article-body", "article", "div.fulltext">>

\* what soup.select(selector) finds on the page: nothing, elements with at
\* most 500 characters of text, or elements with more
ElemsOf(page, sel) == IF sel \in PageSelectors THEN page.elems[sel] ELSE "absent"

\* the loops over the selectors of fetch_from_journal_site_enhanced: the first
\* selector in sels whose elements hold more than 500 characters
RECURSIVE FirstLongMatch(_, _)
FirstLongMatch(page, sels) ==
    IF sels = <<>> THEN JsNone
    ELSE IF ElemsOf(page, Head(sels)) = "long" THEN JsText(Head(sels))
    ELSE FirstLongMatch(page, Tail(sels))

\* the loop of fetch_from_journal_site: the first selector that selects
\* anything; its text may be empty
RECURSIVE FirstMatch(_, _)
FirstMatch(page, sels) ==
    IF sels = <<>> THEN JsNone
    ELSE IF ElemsOf(page, Head(sels)) # "absent" THEN JsText(Head(sels))
    ELSE FirstMatch(page, Tail(sels))

\* fetch_from_journal_site(doi): None at once unless a key of
\* publisher_patterns is a prefix of the DOI; else one request and the
\* selectors of that publisher (a PDF link on the page is not followed here)
fetch_from_journal_site(cs, page, request_raises) ==
    IF ~\E pre \in publisher_patterns : StartsWith(cs, pre)
       THEN [ret |-> JsNone, trace |-> <<>>]
    ELSE IF request_raises \/ page.status_code # HttpOk
       THEN [ret |-> JsNone, trace |-> <<"GET">>]
    ELSE LET pre == CHOOSE p \in publisher_patterns : StartsWith(cs, p)
         IN [ret |-> FirstMatch(page, PatternSelectors(pre)), trace |-> <<"GET">>]

\* lines 1267-1287: no DOI, no registry entry (the generic function is
\* called), or the URL built from the template
FJSE_Start ==
    /\ js_pc = "start"
    /\ IF ~Truthy(js_doi)
          THEN js_ret' = JsNone /\ js_pc' = "done" /\ UNCHANGED js_trace
       ELSE IF get_publisher_info(js_doi.s) = 0
          THEN \E request_raises \in BOOLEAN :
                 LET r == fetch_from_journal_site(js_doi.s, js_page, request_raises)
                 IN js_ret' = r.ret /\ js_trace' = js_trace \o r.trace /\ js_pc' = "done"
       ELSE js_pc' = "request" /\ UNCHANGED <<js_ret, js_trace>>
    /\ UNCHANGED <<js_doi, js_page>>
    /\ UNCHANGED <<clVars, resVars, cacheVars, pdfVars, brVars, ccVars, retryVars, llmVars>>

\* lines 1289-1297: requests.get(url, headers=headers) inside the try
FJSE_Request ==
    /\ js_pc = "request"
    /\ js_trace' = Append(js_trace, "GET")
    /\ \E request_raises \in BOOLEAN :
         IF request_raises \/ js_page.status_code # HttpOk
            THEN js_ret' = JsNone /\ js_pc' = "done"
            ELSE js_pc' = "select" /\ UNCHANGED js_ret
    /\ UNCHANGED <<js_doi, js_page>>
    /\ UNCHANGED <<clVars, resVars, cacheVars, pdfVars, brVars, ccVars, retryVars, llmVars>>

\* lines 1299-1322: the publisher's selectors, then the generic ones
FJSE_Select ==
    /\ js_pc = "select"
    /\ LET sels == PUBLISHER_REGISTRY[get_publisher_info(js_doi.s)].selectors
                     \o GenericSelectors
       IN /\ js_ret' = FirstLongMatch(js_page, sels)
          /\ js_trace' = js_trace \o sels
    /\ js_pc' = "done"
    /\ UNCHANGED <<js_doi, js_page>>
    /\ UNCHANGED <<clVars, resVars, cacheVars, pdfVars, brVars, ccVars, retryVars, llmVars>>

\* DOIs of a publisher of the registry, of one outside it, and no DOI
UnknownPublisherDoi == Str(<<"1", "0", ".", "5", "5", "5", "5", "/", "x">>)
JournalDois == {None, EmptyPyStr, ElsevierDoi, BiorxivDoi, UnknownPublisherDoi}

Pages ==
    [status_code : {HttpOk, HttpNotFound},
     elems : [PageSelectors -> {"absent", "short", "long"}]]

InitJournalCall ==
    /\ js_pc = "start" /\ js_doi \in JournalDois /\ js_page \in Pages
    /\ js_trace = <<>> /\ js_ret = JsPending

NextJournal == FJSE_Start \/ FJSE_Request \/ FJSE_Select

(***************************************************************************)
(* Specifications                                                          *)
(***************************************************************************)
InitClassify ==
    /\ cl_text \in ClassifyInputs /\ cl_result = FALSE /\ cl_pc = "call"
    /\ ResolveIdle /\ CacheIdle /\ PdfIdle /\ BrowserIdle /\ ThreadsIdle /\ NetIdle

NextClassify == Classify

SpecClassify == InitClassify /\ [][NextClassify]_vars

InitResolve ==
    /\ InitResolveCall
    /\ ClassifyIdle /\ CacheIdle /\ PdfIdle /\ BrowserIdle /\ ThreadsIdle /\ NetIdle

SpecResolve == InitResolve /\ [][NextResolve]_vars

InitCache ==
    /\ app_kind \in {"app.py", "web"}
    /\ cache_bound \in 1..MaxCacheSize
    /\ query_cache = <<>> /\ use = <<>> /\ seen = {} /\ ev = NoEv
    /\ ClassifyIdle /\ ResolveIdle /\ PdfIdle /\ BrowserIdle /\ ThreadsIdle /\ NetIdle

NextCache == AppChat \/ WebChat \/ ClearCache

SpecCache == InitCache /\ [][NextCache]_vars

InitPdf ==
    /\ InitPdfCall
    /\ ClassifyIdle /\ ResolveIdle /\ CacheIdle /\ BrowserIdle /\ ThreadsIdle /\ NetIdle

SpecPdf == InitPdf /\ [][NextPdf]_vars

InitBrowser ==
    /\ InitBrowserCall
    /\ ClassifyIdle /\ ResolveIdle /\ CacheIdle /\ PdfIdle /\ ThreadsIdle /\ NetIdle

SpecBrowser == InitBrowser /\ [][NextBrowser]_vars

\* the shared AIService after construction, no call in progress
InitThreads ==
    /\ app_kind = "threads"
    /\ cache_bound \in 1..MaxCacheSize
    /\ query_cache = <<>> /\ use = <<>> /\ seen = {} /\ ev = NoEv
    /\ ThreadsIdle
    /\ ClassifyIdle /\ ResolveIdle /\ PdfIdle /\ BrowserIdle /\ NetIdle

SpecThreads == InitThreads /\ [][NextThreads]_vars

InitRetry ==
    /\ InitRetryCall /\ LlmIdle /\ JournalIdle
    /\ ClassifyIdle /\ ResolveIdle /\ CacheIdle /\ PdfIdle /\ BrowserIdle /\ ThreadsIdle

SpecRetry == InitRetry /\ [][NextRetry]_vars

InitLlm ==
    /\ InitLlmCall /\ RetryIdle /\ JournalIdle
    /\ ClassifyIdle /\ ResolveIdle /\ CacheIdle /\ PdfIdle /\ BrowserIdle /\ ThreadsIdle

SpecLlm == InitLlm /\ [][NextLlm]_vars

InitJournal ==
    /\ InitJournalCall /\ RetryIdle /\ LlmIdle
    /\ ClassifyIdle /\ ResolveIdle /\ CacheIdle /\ PdfIdle /\ BrowserIdle /\ ThreadsIdle

SpecJournal == InitJournal /\ [][NextJournal]_vars

Init == \/ InitClassify \/ InitResolve \/ InitCache \/ InitPdf \/ InitBrowser
        \/ InitThreads \/ InitRetry \/ InitLlm \/ InitJournal
Next == \/ NextClassify \/ NextResolve \/ NextCache \/ NextPdf \/ NextBrowser
        \/ NextThreads \/ NextRetry \/ NextLlm \/ NextJournal
Spec == Init /\ [][Next]_vars

(***************************************************************************)
(* Properties                                                              *)
(***************************************************************************)
Done == pc = "done"

\* the call is inside resolve_full_text or resolve_full_text_enhanced
InResolver == fn \in {"rft", "rfte"}

\* the adapters that come after PubMed Central in either resolver
LowerPriorityAdapters ==
    {"fetch_fulltext_europe_pmc", "fetch_pubmed_abstract", "fetch_from_journal_site",
     "fetch_biorxiv_html", "fetch_semantic_scholar_text", "check_unpaywall",
     "fetch_from_open_repositories", "fetch_aacr_fulltext", "fetch_from_scihub"}

\* a PMCID was resolved and fetch_pmc_fulltext returned a full text
PmcGaveFullText == Truthy(pmcid) /\ pmc_text.k = "str" /\ is_full_text(pmc_text)

\* C1: when a PMCID is resolved and fetch_pmc_fulltext returns a text that
\* is_full_text classifies as full text, the call has returned that text with
\* source "PubMed Central" and has invoked no lower-priority adapter.
C1_ShortCircuit ==
    PmcGaveFullText =>
        /\ Done
        /\ ret.kind = "return"
        /\ ret.text = pmc_text
        /\ ret.meta["source"] = "PubMed Central"
        /\ \A i \in DOMAIN calls : calls[i].f \notin LowerPriorityAdapters

C1_Witness == PmcGaveFullText /\ Done /\ ret.kind = "return"

\* the results one call collected; the short-circuit of resolve_full_text
\* returns the PMC text without putting it into results
Collected ==
    IF fn = "rft" /\ PmcGaveFullText
        THEN <<Result(pmc_text, "PubMed Central", TRUE)>>
        ELSE results

IsLongestOf(text, idx) ==
    /\ \E i \in idx : Collected[i].text = text
    /\ \A j \in idx : TextLen(Collected[j].text) <= TextLen(text)

\* C2: the returned text is a longest of the collected results classified full
\* text if there is one, otherwise a longest of the abstract-only results; a
\* full text wins over every abstract, longer or earlier.
C2_SelectionPolicy ==
    (Done /\ ret.kind = "return") =>
        LET ft == {i \in DOMAIN Collected : is_full_text(Collected[i].text)}
            ab == DOMAIN Collected \ ft
        IN IF ft # {} THEN IsLongestOf(ret.text, ft)
           ELSE IF ab # {} THEN IsLongestOf(ret.text, ab)
           ELSE ret.text = NoText

\* a full text was returned although a longer abstract was collected before it
C2_Witness ==
    /\ Done /\ ret.kind = "return" /\ is_full_text(ret.text)
    /\ \E i, j \in DOMAIN results :
         /\ i < j
         /\ ~is_full_text(results[i].text)
         /\ results[j].text = ret.text
         /\ TextLen(results[i].text) > TextLen(results[j].text)

\* C3: on every return path of a resolver the returned metadata contains the
\* access_logs sequence.
C3_AccessLogsOnEveryReturn ==
    (InResolver /\ Done /\ ret.kind = "return") => Has(ret.meta, "access_logs")

\* C4: resolve_full_text_enhanced never raises; every call ends by returning a
\* pair, and the text of the pair is None when no adapter yielded text.
C4_EnhancedIsTotal ==
    fn = "rfte" =>
        /\ ret.kind # "raise"
        /\ Done => /\ ret.kind = "return"
                   /\ results = <<>> => ret.text = NoText
        /\ ~Done => ENABLED NextResolve

\* an exception inside the call ended in a returned pair
C4_Witness ==
    fn = "rfte" /\ Done /\ ret.kind = "return" /\ Has(ret.meta, "error")

\* C5: in both resolvers a call completes with a result, never an exception,
\* whatever the adapters returned.
C5_CallCompletesWithResult ==
    (InResolver /\ Done) => ret.kind = "return"

\* C6: the response cache never holds more entries than its bound.
C6_CacheBound == Len(query_cache) <= cache_bound

\* a new key was inserted into a full cache
C6_Witness ==
    /\ ev.inserted /\ ev.was_full /\ ~ev.existed
    /\ Len(query_cache) = cache_bound

\* C7: inserting a new key into a full cache removes exactly the least
\* recently used entry, insertions and cache hits both counting as a use.
C7_EvictsLeastRecentlyUsed ==
    [][ (ev'.inserted /\ ev'.key \notin Keys(query_cache)
                      /\ Len(query_cache) >= cache_bound)
        => Keys(query_cache') = (Keys(query_cache) \ {Head(use)}) \cup {ev'.key} ]_vars

\* C8: inserting a key that is already cached replaces its value, makes it the
\* most recently used entry, and leaves the size and the other entries alone.
C8_ReinsertExistingKey ==
    [][ (ev'.inserted /\ ev'.key \in Keys(query_cache))
        => /\ Len(query_cache') = Len(query_cache)
           /\ query_cache'[Len(query_cache')] = Entry(ev'.key, ev'.value)
           /\ Pop(query_cache', ev'.key) = Pop(query_cache, ev'.key) ]_vars

\* a cached key was inserted again into a full cache that holds other keys
C8_Witness ==
    /\ ev.inserted /\ ev.existed /\ ev.was_full
    /\ Len(query_cache) > 1

\* C9: a query submitted again with caching enabled does not run the
\* resolution cascade again.
C9_NoRepeatedCascade ==
    (ev.op = "chat" /\ ev.use_cache /\ ev.repeat) => ~ev.cascade

\* C10: is_full_text(text) is true exactly when the text has more than 4000
\* characters or at least 3 of the 9 markers occur in its lower-cased form; it
\* is false for a missing or empty text and for 4000 characters with fewer
\* than 3 markers.
MarkersIn(t) ==
    {i \in 1..9 : Contains(LowerBody(t.body), full_text_markers[i])}

C10_Classifier ==
    cl_pc = "done" =>
        /\ cl_result = (TextLen(cl_text) > 4000 \/ Cardinality(MarkersIn(cl_text)) >= 3)
        /\ (cl_text = NoText \/ cl_text = EmptyText) => ~cl_result
        /\ (TextLen(cl_text) = 4000 /\ Cardinality(MarkersIn(cl_text)) < 3) => ~cl_result

\* a text of exactly 4000 characters with two markers was classified
C10_Witness ==
    /\ cl_pc = "done" /\ ~cl_result
    /\ TextLen(cl_text) = 4000 /\ Cardinality(MarkersIn(cl_text)) = 2

(***************************************************************************)
(* Terminal states of resolve_full_text_enhanced                           *)
(***************************************************************************)
\* the call of resolve_full_text_enhanced has returned a pair
RFTE_Returned == fn = "rfte" /\ Done /\ ret.kind = "return"

\* C11: every return of resolve_full_text_enhanced is in one of the states
\* FULL_TEXT_FOUND (text, has_full_text), ABSTRACT_ONLY (text, no
\* has_full_text, has_abstract) and NO_CONTENT (no text, no has_full_text);
\* a returned text comes with the name of an adapter that produced it and
\* with its length; a lone PubMed abstract that is not classified as full
\* text is returned as ABSTRACT_ONLY with source "PubMed Abstract".
\* (a key the metadata lacks reads as false, as metadata.get(key, False))
C11_TerminalStates ==
    RFTE_Returned =>
        LET m == ret.meta
            has_full_text == Get(m, "has_full_text", FALSE)
            has_abstract == Get(m, "has_abstract", FALSE)
            full == ret.text # NoText /\ has_full_text
            abstract_only == ret.text # NoText /\ ~has_full_text /\ has_abstract
            no_content == ret.text = NoText /\ ~has_full_text
        IN /\ full \/ abstract_only \/ no_content
           /\ ~(full /\ abstract_only) /\ ~(full /\ no_content)
           /\ ~(abstract_only /\ no_content)
           /\ ret.text # NoText =>
                /\ Has(m, "source") /\ Has(m, "text_length")
                /\ \E i \in DOMAIN results :
                      results[i].text = ret.text /\ results[i].source = m["source"]
                /\ m["text_length"] = TextLen(ret.text)
           /\ ( /\ Len(results) = 1
                /\ results[1].source = "PubMed Abstract"
                /\ ~is_full_text(results[1].text) )
              => /\ abstract_only
                 /\ m["source"] = "PubMed Abstract"

\* two adapters gave abstracts, the PubMed abstract being the longer and
\* the second in the list, and the call returned it
C11_Witness ==
    /\ RFTE_Returned
    /\ Len(results) = 2
    /\ results[1].source # "PubMed Abstract"
    /\ results[2].source = "PubMed Abstract"
    /\ ~results[1].is_ft /\ ~results[2].is_ft
    /\ ret.text = results[2].text
    /\ ret.meta["source"] = "PubMed Abstract"

\* C12: a text obtained from the PubMed abstract adapter is recorded with
\* is_full_text = false, whatever its length and its section markers.
C12_PubMedAbstractNeverFullText ==
    \A i \in DOMAIN results :
        results[i].source = "PubMed Abstract" => ~results[i].is_ft

(***************************************************************************)
(* PDF extraction                                                          *)
(***************************************************************************)
\* a method output with more than 200 characters after stripping
GoodOutput(o) == o.k = "str" /\ o.core > 200

\* position of a method in the order pdfplumber, PyMuPDF, pdfminer
MethodRank(m) ==
    CASE m = "extract_with_pdfplumber" -> 1
      [] m = "extract_with_pymupdf" -> 2
      [] m = "extract_with_pdfminer" -> 3

\* C13: extract_text_from_pdf_bytes runs its extraction methods one after
\* another in a fixed order; a method that raises or gives an empty or short
\* text is skipped; the first output with more than 200 stripped characters
\* is returned unchanged, no method is run after it, and the returned text is
\* that one output.
C13_PdfExtractionOrder ==
    /\ \A i \in DOMAIN pdf_trace : pdf_trace[i].m = extraction_methods[i]
    /\ \A i, j \in DOMAIN extraction_methods :
          i < j => MethodRank(extraction_methods[i]) < MethodRank(extraction_methods[j])
    /\ \A i \in DOMAIN pdf_trace : i < Len(pdf_trace) => ~GoodOutput(pdf_trace[i].out)
    /\ pdf_ret # PdfPending =>
          IF \E i \in DOMAIN pdf_trace : GoodOutput(pdf_trace[i].out)
             THEN /\ pdf_ret = pdf_trace[Len(pdf_trace)].out
                  /\ pdf_ret.by = pdf_trace[Len(pdf_trace)].m
                  /\ pdf_ocr = "not tried"
             ELSE Len(pdf_trace) = Len(extraction_methods)

\* the first method was skipped and the output of the second was returned
C13_Witness ==
    /\ pdf_ret # PdfPending
    /\ Len(pdf_trace) = 2
    /\ ~GoodOutput(pdf_trace[1].out)
    /\ pdf_trace[1].out.k = "str"
    /\ GoodOutput(pdf_trace[2].out)
    /\ pdf_ret = pdf_trace[2].out

\* C14: when no library gives more than 200 stripped characters OCR is
\* attempted; when OCR is unavailable or fails the command-line tools are
\* attempted; a null or empty text is the result only if every one of these
\* methods failed.
C14_PdfFallbackChain ==
    (pdf_pc = "done" /\ pdf_caller # UtilsPdfUrl) =>
        LET no_library == \A i \in DOMAIN pdf_trace : ~GoodOutput(pdf_trace[i].out)
            ocr_gave_nothing == pdf_ocr \in {"unavailable", "failed"}
                                \/ (pdf_ocr = "ok" /\ ~PdfTruthy(pdf_ret))
            tools_could_run == pdf_size >= 1000
        IN /\ no_library => pdf_ocr # "not tried"
           /\ (no_library /\ pdf_ocr \in {"unavailable", "failed"} /\ tools_could_run)
                 => ext_trace # <<>>
           /\ ~PdfTruthy(pdf_final) =>
                 /\ no_library
                 /\ ocr_gave_nothing
                 /\ tools_could_run => ext_trace # <<>>

(***************************************************************************)
(* Identifier validation                                                   *)
(***************************************************************************)
\* the functions of the call log that take a PMID or a DOI
TakesIdentifier(f) == f \notin {"search_paper_by_title", "fetch_pmc_fulltext"}

\* C15: a DOI or PMID that fails validate_doi / validate_pmid is never
\* passed to the identifier-conversion lookup or to an adapter during the
\* resolution call.
C15_InvalidIdNeverUsed ==
    \A i \in DOMAIN calls :
        TakesIdentifier(calls[i].f) =>
            \A v \in {calls[i].a, calls[i].b} :
                v.k = "str" => validate_pmid(v.s) \/ validate_doi(v.s)

(***************************************************************************)
(* Title search                                                            *)
(***************************************************************************)
\* the call was given a title and neither a DOI nor a PMID
OnlyTitle == Truthy(args.title) /\ ~Truthy(args.doi) /\ ~Truthy(args.pmid)

FirstAttemptFailed ==
    /\ ev.op = "chat" /\ app_kind = "web"
    /\ ev.attempts # <<>> /\ ev.attempts[1].out = "raise"

\* what holds of every request, cached fallback or not: at most two attempts,
\* the first with the requested model; a failed request that names the
\* fallback model is raised after its single attempt
FallbackCommon ==
    /\ Len(ev.attempts) <= 2
    /\ ev.attempts # <<>> => ev.attempts[1].model = ev.model
    /\ (FirstAttemptFailed /\ ev.model = fallback_model) =>
          Len(ev.attempts) = 1 /\ ev.error

\* after the failure of a model other than the fallback model, the fallback
\* model was tried once: its response was returned, or its failure raised
FallbackTried ==
    /\ Len(ev.attempts) = 2
    /\ ev.attempts[2].model = fallback_model
    /\ IF ev.attempts[2].out = "raise"
          THEN ev.error
          ELSE ~ev.error /\ ~ev.hit /\ ev.value = ev.attempts[2].out

\* C16 as stated: when the requested model fails and is not the fallback
\* model, the fallback model is tried exactly once and its response is
\* returned; a call makes at most two attempts; a failure of the fallback
\* attempt, or of a request naming the fallback model, is raised with no
\* further attempt.
C16_FallbackTriedOnce ==
    /\ FallbackCommon
    /\ (FirstAttemptFailed /\ ev.model # fallback_model) => FallbackTried

\* C16, amended: as above, except that with caching on a response cached for
\* the fallback model is returned without a second attempt.
C16_FallbackOrCachedFallback ==
    /\ FallbackCommon
    /\ (FirstAttemptFailed /\ ev.model # fallback_model) =>
          \/ FallbackTried
          \/ /\ ev.hit /\ ev.use_cache /\ ~ev.error
             /\ Len(ev.attempts) = 1
             /\ ev.key = CacheKey(fallback_model, ev.key.query, ev.key.ctx)
             /\ ev.key \in Keys(query_cache)
             /\ ev.value = query_cache[Lookup(query_cache, ev.key)].value

\* the requested model failed and the fallback model answered
C16_Witness ==
    /\ FirstAttemptFailed /\ ev.model # fallback_model
    /\ Len(ev.attempts) = 2 /\ ev.attempts[2].out \in Replies
    /\ ev.value = ev.attempts[2].out

\* C17: when the provider fails during a chat request (in app.py the call of
\* get_model_response, in web.py every attempt of get_response), the handler
\* still renders a page, and the response on it is an error string.
C17_ProviderFailureRendered ==
    (ev.op = "chat" /\ ev.error) =>
        /\ ev.outcome = "rendered"
        /\ ev.value \in {ErrorReply, HandlerErrorReply}

\* the requested model and the fallback model both failed in web.py
C17_Witness ==
    /\ ev.op = "chat" /\ ev.error /\ app_kind = "web"
    /\ Len(ev.attempts) = 2
    /\ ev.outcome = "rendered" /\ ev.value = HandlerErrorReply

(***************************************************************************)
(* Browser teardown and concurrent cache access                            *)
(***************************************************************************)
\* C18: when a browser-automation call has returned, every driver it started
\* has been quit, whatever happened while a page was loaded or scraped.
C18_DriversQuit ==
    br_pc = "done" => \A i \in DOMAIN drivers : drivers[i] = "quit"

\* C19: with several threads inside AIService.get_response, the cache never
\* holds more than cache_size entries and no cache operation (recency
\* update, pop, eviction) fails.
C19_ConcurrentCacheSafe ==
    app_kind = "threads" =>
        /\ Len(query_cache) <= cache_bound
        /\ \A t \in Threads : threads[t].err # "KeyError"

(***************************************************************************)
(* Installed PDF libraries                                                 *)
(***************************************************************************)
\* the imports of pdfplumber, PyMuPDF and pdfminer all succeeded
AllLibrariesInstalled == pdf_globals = ModuleGlobals(Libraries)

\* C25: with pdfplumber, PyMuPDF and pdfminer installed, once the first two
\* have given at most 200 stripped characters the pdfminer extractor is run
\* before the OCR fallback, and its output is returned if it has more than
\* 200 stripped characters.
C25_AllInstalledLibrariesTried ==
    ( /\ AllLibrariesInstalled
      /\ pdf_ret # PdfPending
      /\ \A i \in DOMAIN pdf_trace : i <= 2 => ~GoodOutput(pdf_trace[i].out) )
    => /\ Len(pdf_trace) = 3
       /\ pdf_trace[3].m = "extract_with_pdfminer"
       /\ GoodOutput(pdf_trace[3].out) => pdf_ret = pdf_trace[3].out

\* the str v is a PMID / a DOI by the resolver's validators
IsValidPmid(v) == v.k = "str" /\ validate_pmid(v.s)
IsValidDoi(v) == v.k = "str" /\ validate_doi(v.s)

\* the calls of fetch_fulltext_europe_pmc made so far
EuropePmcCalls == {i \in DOMAIN calls : calls[i].f = "fetch_fulltext_europe_pmc"}

\* C26: in resolve_full_text_enhanced the Europe PMC adapter is never called
\* with a DOI in place of the PMID, and a call that reaches the aggregation
\* with a valid PMID has called the adapter with that PMID.
C26_EuropePmcByPmid ==
    fn = "rfte" =>
      /\ \A i \in EuropePmcCalls : ~IsValidDoi(calls[i].a)
      /\ (RFTE_Returned /\ IsValidPmid(pmid) /\ src_i > Len(sources))
           => \E i \in EuropePmcCalls : calls[i].a = pmid

\* _resolve_paper_content has run on what resolve_full_text returned
PaperContentResolved ==
    /\ args.fn = "resolve_paper"
    /\ paper_result.access_status # ""
    /\ ret.kind = "return"

\* C30: after _resolve_paper_content, has_full_text is true exactly when
\* resolve_full_text classified the returned text as full text; the text is
\* in full_text when has_full_text is true and in abstract otherwise, also
\* when it was truncated; access_status is "Full Text Available", "Abstract
\* Only" or "No Content Available" accordingly.
C30_PaperResultConsistent ==
    PaperContentResolved =>
      LET classified == TextTruthy(ret.text) /\ Get(ret.meta, "is_full_text", FALSE)
      IN /\ paper_result.has_full_text = classified
         /\ TextTruthy(ret.text) =>
              IF paper_result.has_full_text
                 THEN /\ paper_result.full_text.t = ret.text
                      /\ paper_result.abstract.t = EmptyText
                 ELSE /\ paper_result.abstract.t = ret.text
                      /\ paper_result.full_text.t = EmptyText
         /\ paper_result.access_status =
              IF ~TextTruthy(ret.text) THEN "No Content Available"
              ELSE IF paper_result.has_full_text THEN "Full Text Available"
              ELSE "Abstract Only"

RetryDone == rt_pc = "done"

\* the invocations of the wrapped function that raised
FailedInvocation(i) == rt_trace[i].kind = "raise"

\* C23: a function wrapped by retry_request is invoked at most 3 times per
\* call; the first successful invocation ends the call with its result; an
\* invocation is repeated only after RequestException or ConnectionError and
\* after a sleep of 2^attempt seconds plus a jitter below half a second; the
\* error of the third failed invocation is re-raised; any other exception
\* leaves the wrapper at once, as it was raised.
C23_BoundedRetry ==
    /\ Len(rt_trace) <= retry_max_retries
    /\ \A i \in DOMAIN rt_trace :
         /\ ~FailedInvocation(i) => i = Len(rt_trace) /\ (RetryDone => rt_ret = rt_trace[i])
         /\ i > 1 => /\ FailedInvocation(i - 1) /\ IsRetryable(rt_trace[i - 1].v)
                     /\ Len(rt_sleeps) >= i - 1
                     /\ rt_sleeps[i - 1] >= Seconds(2 ^ (i - 2))
                     /\ rt_sleeps[i - 1] < Seconds(2 ^ (i - 2)) + 2
    /\ (RetryDone /\ rt_trace # <<>> /\ FailedInvocation(Len(rt_trace))) =>
         /\ rt_ret = rt_trace[Len(rt_trace)]
         /\ IsRetryable(rt_ret.v) => Len(rt_trace) = retry_max_retries

\* the provider calls of the request that ended with a rate-limit error
RateLimited == {i \in DOMAIN sc_trace : sc_trace[i] = "RateLimitError"}

\* what the last rate-limit error asked the client to wait, 20 s if nothing
AskedWait == IF sc_wait.hint = NoHint THEN Seconds(DefaultRetryAfter) ELSE sc_wait.hint

\* C24: safe_create / _safe_create calls the provider at most 5 times per
\* request; whenever the provider is called again after a rate-limit error,
\* the sleep before the call lasted at least the retry-after time given in
\* the error message (20 seconds when none is given); a request whose 5 calls
\* were all rate-limited ends with RuntimeError / APIError.
C24_RateLimitTerminates ==
    /\ Len(sc_trace) <= llm_max_retries
    /\ (sc_pc = "call" /\ sc_trace # <<>> /\ Len(sc_trace) \in RateLimited)
          => sc_wait.slept >= AskedWait
    /\ (Len(sc_trace) = llm_max_retries /\ RateLimited = DOMAIN sc_trace /\ sc_pc # "sleep")
          => /\ sc_pc = "done"
             /\ sc_ret = RaisesExc(MaxRetriesError(sc_fn))

\* C29: a response that stands for a failed provider call is never stored in
\* the response cache, and no request is answered from the cache with it.
C29_FailuresNotCached ==
    /\ \A i \in DOMAIN query_cache : query_cache[i].value # ErrorReply
    /\ ev.hit => ev.value # ErrorReply

\* the access_logs a finished call of resolve_full_text returned
ReturnedLogs == Get(ret.meta, "access_logs", <<>>)

\* C21: the PubMed Central attempt, which every call of resolve_full_text
\* makes, leaves exactly one entry in the returned access_logs, also when no
\* PMCID could be resolved.
C21_OneLogEntryPerAttempt ==
    (fn = "rft" /\ Done /\ ret.kind = "return") =>
        Cardinality({i \in DOMAIN ReturnedLogs :
                        ReturnedLogs[i].source = "PubMed Central"}) = 1

\* the place of an adapter in the priority list; 0 for a call that is not an
\* adapter (title search, identifier conversion)
AdapterRank(f) ==
    CASE f = "fetch_pmc_fulltext"        -> 1
      [] f = "fetch_fulltext_europe_pmc" -> 2
      [] f = "fetch_pubmed_abstract"     -> 3
      [] f = "fetch_from_journal_site"   -> 4
      [] f = "fetch_biorxiv_html"        -> 5
      [] OTHER                           -> 0

AdapterCalls == {i \in DOMAIN calls : AdapterRank(calls[i].f) > 0}

\* C22: the adapters invoked during one resolution call, in the order of
\* their invocation, form a subsequence of the priority list: none is
\* invoked twice and none before a higher-priority one.
C22_AdaptersInPriorityOrder ==
    \A i, j \in AdapterCalls :
        i < j => AdapterRank(calls[i].f) < AdapterRank(calls[j].f)

\* a call that went through PubMed Central and the four sources of the loop
C22_Witness == Done /\ Cardinality(AdapterCalls) = 5

\* an extraction library of utils/full_text_resolver.py is installed
UtilsLibraryInstalled == pdf_globals \cap {"pdfplumber", "fitz", "extract_text_to_fp"} # {}

\* C27: when the download of the Unpaywall URL answers HTTP 200 and an
\* installed library can extract text from the bytes, extract_text_from_pdf_url
\* of utils/full_text_resolver returns the extracted text.
C27_UnpaywallPdfText ==
    ( /\ pdf_caller = UtilsPdfUrl /\ pdf_pc = "done"
      /\ pdf_response.status_code = HttpOk /\ pdf_response.has_text
      /\ UtilsLibraryInstalled )
    => PdfTruthy(pdf_final)

\* the call was made with a DOI that matches no entry of the registry
UnknownPublisher == Truthy(js_doi) /\ get_publisher_info(js_doi.s) = 0

\* C28: for a DOI that matches no entry of the publisher registry,
\* fetch_from_journal_site_enhanced still requests the article page, and when
\* the page is served it returns the text of the first of the selectors
\* article, div.article-body, div.fulltext that matches.
C28_GenericSelectorsForUnknownPublisher ==
    (js_pc = "done" /\ UnknownPublisher) =>
        /\ js_trace # <<>> /\ js_trace[1] = "GET"
        /\ (js_page.status_code = HttpOk /\ js_ret # JsNone)
              => js_ret = FirstMatch(js_page, GenericSelectors)
        /\ (js_page.status_code = HttpOk
            /\ \A i \in DOMAIN GenericSelectors :
                  ElemsOf(js_page, GenericSelectors[i]) = "long")
              => js_ret = JsText(GenericSelectors[1])

====
